---------------------------- MODULE Spec2Model ----------------------------
(***************************************************************************)
(* Model of zegion's Notion writer (src/zegion/writer/notion.py):          *)
(*   - NotionArticleWriter.write and its helpers (_chunk_blocks,           *)
(*     _create_page, _append_blocks), with the Notion API as environment;  *)
(*   - NotionMarkdownConverter (pre-pass, line scan, table conversion,     *)
(*     inline formatting), computed on strings;                            *)
(* of the global configuration (src/zegion/config.py) and of the code      *)
(* directory scan (src/zegion/tool.py).                                    *)
(* A string is a sequence of one-character strings.                        *)
(***************************************************************************)
EXTENDS Integers, Sequences, FiniteSets, TLC

VARIABLES
    \* ---- NotionArticleWriter.write ----
    wpc,            \* position in write
    nblocks,        \* number of blocks the conversion of article.content yields
    blocks,         \* local `blocks` of write
    page_id,        \* local `page_id` of write
    append_k,       \* position of the for loop of _append_blocks (1-based chunk)
    calls,          \* remote calls issued so far, in order, with their outcome
    remote_children,\* blocks committed to the remote page
    w_result,       \* how write ended
    \* ---- NotionMarkdownConverter.parse_markdown_to_notion_blocks ----
    ppc,            \* position in parse_markdown_to_notion_blocks
    source,         \* the argument `markdown` as passed in
    markdown,       \* local `markdown` (rewritten by the two passes)
    code_blocks,    \* side table of fenced code: entry idx at position idx + 1
    latex_blocks,   \* side table of math blocks
    lines,          \* markdown.split("\n")
    li,             \* position of `for line in lines` (1-based)
    p_blocks,       \* local `blocks` of parse_markdown_to_notion_blocks
    current_table,
    in_table,
    indented_code,
    p_result,       \* how parse_markdown_to_notion_blocks ended
    \* ---- NotionMarkdownConverter.process_inline_formatting ----
    ipc,            \* position in process_inline_formatting
    inline_text,    \* the argument `text`
    text_parts,     \* local `text_parts`
    text_src,       \* for each element of text_parts, the piece of the text it came from
    plugin_i,       \* position of `for plugin in self.inline_plugins` (1-based)
    result,         \* local `result`, the list process_inline_formatting returns
    \* ---- state shared by the invocations of the converter ----
    rule_list,      \* the class attribute NotionMarkdownConverter.inline_plugins
    other,          \* a second invocation of parse_markdown_to_notion_blocks
    held,           \* the blocks the first invocation returned, in the caller's hands
    \* ---- zegion.config ----
    gpc,            \* position of the caller of load_config
    config,         \* the module-level object `config`
    new_config,     \* the argument of the load_config call
    load_ret,       \* the object load_config returned
    n_loads,        \* number of load_config calls so far
    \* ---- zegion.tool.read_code_directory ----
    tpc,            \* position in read_code_directory
    code_dir,       \* the argument `code_dir`
    tree,           \* the files under code_dir
    todo,           \* files base_path.rglob("*.py") has not yielded yet
    extracted_data, \* local `extracted_data`
    t_result        \* how read_code_directory ended

wvars == <<wpc, nblocks, blocks, page_id, append_k, calls, remote_children, w_result>>

pvars == <<ppc, source, markdown, code_blocks, latex_blocks, lines, li, p_blocks,
           current_table, in_table, indented_code, p_result>>

ivars == <<ipc, inline_text, text_parts, text_src, plugin_i, result>>

svars == <<rule_list, other, held>>

gvars == <<gpc, config, new_config, load_ret, n_loads>>

tvars == <<tpc, code_dir, tree, todo, extracted_data, t_result>>

vars == <<wvars, pvars, ivars, svars, gvars, tvars>>

None == "None"

\* ------------------------------------------------------------------------
\* Bounds
\* ------------------------------------------------------------------------
MaxBlocks == 301

MaxPieces == 3

MaxFencePieces == 5

MaxRows == 4

MaxTokens == 5

MaxSharedPieces == 2

MaxMutations == 1

MaxLoads == 2

MaxFiles == 2

MaxRunLines == 4

MaxMarkerPieces == 2

\* ------------------------------------------------------------------------
\* Program constants
\* ------------------------------------------------------------------------
CHUNK_SIZE == 100

\* ------------------------------------------------------------------------
\* Helpers
\* ------------------------------------------------------------------------
Min(a, b) == IF a < b THEN a ELSE b

Drop(s, n) == IF n >= Len(s) THEN <<>> ELSE SubSeq(s, n + 1, Len(s))

Take(s, n) == IF n >= Len(s) THEN s ELSE SubSeq(s, 1, n)

RECURSIVE Flatten(_)
Flatten(ss) == IF ss = <<>> THEN <<>> ELSE Head(ss) \o Flatten(Tail(ss))

\* ------------------------------------------------------------------------
\* Strings (str methods and the regular expressions of the converter)
\* ------------------------------------------------------------------------
\* the backquote character; a string of this module cannot hold it, so it is
\* written as the character below, which occurs nowhere else
BT == "~"

Letters ==
    {"a", "b", "c", "d", "e", "f", "g", "h", "i", "j", "k", "l", "m", "n",
     "o", "p", "q", "r", "s", "t", "u", "v", "w", "x", "y", "z",
     "A", "B", "C", "D", "E", "F", "G", "H", "I", "J", "K", "L", "M", "N",
     "O", "P", "Q", "R", "S", "T", "U", "V", "W", "X", "Y", "Z"}

Digits == {"0", "1", "2", "3", "4", "5", "6", "7", "8", "9"}

\* \s and the characters str.strip() removes
Whitespace == {" ", "\t", "\n"}

\* \w
WordChars == Letters \cup Digits \cup {"_"}

\* s[i:] starts with p (i is 1-based)
StartsAt(s, i, p) ==
    /\ i >= 1
    /\ i + Len(p) - 1 <= Len(s)
    /\ \A k \in 1..Len(p) : s[i + k - 1] = p[k]

\* str.startswith
StartsWith(s, p) == StartsAt(s, 1, p)

SetMin(S) == CHOOSE x \in S : \A y \in S : x <= y

SetMax(S) == CHOOSE x \in S : \A y \in S : x >= y

\* the k-th smallest element of S
Kth(S, k) == CHOOSE x \in S : Cardinality({y \in S : y < x}) = k - 1

\* str.find(p, i): the first position >= i where p occurs, 0 when there is none
FindFrom(s, p, i) ==
    LET S == {j \in i..(Len(s) - Len(p) + 1) : StartsAt(s, j, p)} IN
    IF S = {} THEN 0 ELSE SetMin(S)

LStrip(s) ==
    LET S == {j \in 1..Len(s) : s[j] \notin Whitespace} IN
    IF S = {} THEN <<>> ELSE SubSeq(s, SetMin(S), Len(s))

RStrip(s) ==
    LET S == {j \in 1..Len(s) : s[j] \notin Whitespace} IN
    IF S = {} THEN <<>> ELSE SubSeq(s, 1, SetMax(S))

\* str.strip()
Strip(s) == RStrip(LStrip(s))

\* str.split(sep) for a one-character separator
Split(s, sep) ==
    LET P == {j \in 1..Len(s) : s[j] = sep}
        n == Cardinality(P)
    IN  [k \in 1..(n + 1) |->
            SubSeq(s, IF k = 1 THEN 1 ELSE Kth(P, k - 1) + 1,
                      IF k = n + 1 THEN Len(s) ELSE Kth(P, k) - 1)]

\* sep.join(parts)
RECURSIVE Join(_, _)
Join(parts, sep) ==
    IF parts = <<>> THEN <<>>
    ELSE IF Len(parts) = 1 THEN parts[1]
    ELSE parts[1] \o sep \o Join(Tail(parts), sep)

\* str.replace(pat, ""): every non-overlapping occurrence removed, left to right
RECURSIVE RemoveAll(_, _, _)
RemoveAll(s, pat, i) ==
    LET n == FindFrom(s, pat, i) IN
    IF n = 0 THEN SubSeq(s, i, Len(s))
    ELSE SubSeq(s, i, n - 1) \o RemoveAll(s, pat, n + Len(pat))

\* number of occurrences of pat in s (pat does not overlap itself)
CountOcc(s, pat) == Cardinality({j \in 1..Len(s) : StartsAt(s, j, pat)})

\* str(n) for n >= 0
DigitChar(d) ==
    CASE d = 0 -> "0" [] d = 1 -> "1" [] d = 2 -> "2" [] d = 3 -> "3"
      [] d = 4 -> "4" [] d = 5 -> "5" [] d = 6 -> "6" [] d = 7 -> "7"
      [] d = 8 -> "8" [] d = 9 -> "9"

RECURSIVE Str(_)
Str(n) == IF n < 10 THEN <<DigitChar(n)>> ELSE Append(Str(n \div 10), DigitChar(n % 10))

DigitVal(c) ==
    CASE c = "0" -> 0 [] c = "1" -> 1 [] c = "2" -> 2 [] c = "3" -> 3
      [] c = "4" -> 4 [] c = "5" -> 5 [] c = "6" -> 6 [] c = "7" -> 7
      [] c = "8" -> 8 [] c = "9" -> 9

RECURSIVE DigitsVal(_, _)
DigitsVal(s, acc) ==
    IF s = <<>> THEN acc
    ELSE IF Head(s) = "_" THEN DigitsVal(Tail(s), acc)
    ELSE DigitsVal(Tail(s), 10 * acc + DigitVal(Head(s)))

\* the digit part int() accepts: digits, single underscores between digits
IntDigitsOk(u) ==
    /\ u # <<>>
    /\ u[1] \in Digits
    /\ u[Len(u)] \in Digits
    /\ \A k \in 1..Len(u) : u[k] \in Digits \cup {"_"}
    /\ \A k \in 1..(Len(u) - 1) : ~(u[k] = "_" /\ u[k + 1] = "_")

\* int(s): surrounding whitespace stripped, an optional sign, then digits;
\* anything else is a ValueError (ok = FALSE)
PyInt(s) ==
    LET t   == Strip(s)
        sgn == t # <<>> /\ t[1] \in {"+", "-"}
        u   == IF sgn THEN Tail(t) ELSE t
    IN  IF IntDigitsOk(u)
        THEN [ok |-> TRUE,
              val |-> IF sgn /\ t[1] = "-" THEN 0 - DigitsVal(u, 0) ELSE DigitsVal(u, 0)]
        ELSE [ok |-> FALSE, val |-> 0]

\* --- a regular expression without groups is a sequence of items, each a
\* --- character class (set, or complement of a set) with a quantifier
One(cs)      == [set |-> cs, neg |-> FALSE, q |-> "one"]
Star(cs)     == [set |-> cs, neg |-> FALSE, q |-> "star"]
Plus(cs)     == [set |-> cs, neg |-> FALSE, q |-> "plus"]
PlusNot(cs)  == [set |-> cs, neg |-> TRUE, q |-> "plus"]

InClass(c, item) == IF item.neg THEN c \notin item.set ELSE c \in item.set

\* positions reachable from the positions P by reading one character of the class
StepClass(s, P, item) == {p + 1 : p \in {q \in P : q <= Len(s) /\ InClass(s[q], item)}}

RECURSIVE StarClass(_, _, _)
StarClass(s, P, item) ==
    LET Q == P \cup StepClass(s, P, item) IN
    IF Q = P THEN P ELSE StarClass(s, Q, item)

\* the set of positions at which a match of the items that starts at one of
\* the positions P can end (position = index of the next unread character)
RECURSIVE MatchEnds(_, _, _)
MatchEnds(items, s, P) ==
    IF items = <<>> \/ P = {} THEN P
    ELSE LET it == Head(items)
             Q  == CASE it.q = "one"  -> StepClass(s, P, it)
                     [] it.q = "star" -> StarClass(s, P, it)
                     [] it.q = "plus" -> StarClass(s, StepClass(s, P, it), it)
         IN  MatchEnds(Tail(items), s, Q)

\* re.match(items, s): a match at the start of s
ReMatch(items, s) == MatchEnds(items, s, {1}) # {}

\* re.match(items + "$", s): a match of all of s (s holds no newline)
ReFullMatch(items, s) == (Len(s) + 1) \in MatchEnds(items, s, {1})

\* ------------------------------------------------------------------------
\* Inline formatting (GenericInlinePlugin, LinkPlugin, _replace_part,
\* process_inline_formatting)
\* ------------------------------------------------------------------------
Annotations(b, i, c) ==
    [bold |-> b, italic |-> i, strikethrough |-> FALSE, underline |-> FALSE,
     code |-> c, color |-> "default"]

\* a rich text object; link <<>> stands for None
Span(content, link, ann) ==
    [kind |-> "span", content |-> content, link |-> link, annotations |-> ann]

\* a plain-string fragment of the fragment list
StrPart(s) == [kind |-> "str", s |-> s]

\* an alternative "open(.+?)close" of a plugin pattern
Alt(open, close) == [open |-> open, close |-> close]

\* mutant: the plain bold rule stands before the bold-with-code rule
inline_plugins_plain_first ==
    << [kind |-> "generic",
        alts |-> <<Alt(<<"_", "_", "*">>, <<"*", "_", "_">>), Alt(<<"*", "*", "_">>, <<"_", "*", "*">>)>>,
        annotations |-> Annotations(TRUE, TRUE, FALSE)],
       [kind |-> "generic",
        alts |-> <<Alt(<<"*", "*">>, <<"*", "*">>), Alt(<<"_", "_">>, <<"_", "_">>)>>,
        annotations |-> Annotations(TRUE, FALSE, FALSE)],
       [kind |-> "generic",
        alts |-> <<Alt(<<"*", "*">>, <<"*", "*">>), Alt(<<"_", "_">>, <<"_", "_">>)>>,
        annotations |-> Annotations(TRUE, FALSE, TRUE)],
       [kind |-> "generic",
        alts |-> <<Alt(<<"*">>, <<"*">>), Alt(<<"_">>, <<"_">>)>>,
        annotations |-> Annotations(FALSE, TRUE, FALSE)],
       [kind |-> "generic",
        alts |-> <<Alt(<<BT>>, <<BT>>)>>,
        annotations |-> Annotations(FALSE, FALSE, TRUE)],
       [kind |-> "link"] >>

\* NotionMarkdownConverter.inline_plugins, in order
inline_plugins ==
    << [kind |-> "generic",
        alts |-> <<Alt(<<"_", "_", "*">>, <<"*", "_", "_">>), Alt(<<"*", "*", "_">>, <<"_", "*", "*">>)>>,
        annotations |-> Annotations(TRUE, TRUE, FALSE)],
       [kind |-> "generic",
        alts |-> <<Alt(<<"*", "*">>, <<"*", "*">>), Alt(<<"_", "_">>, <<"_", "_">>)>>,
        annotations |-> Annotations(TRUE, FALSE, TRUE)],
       [kind |-> "generic",
        alts |-> <<Alt(<<"*", "*">>, <<"*", "*">>), Alt(<<"_", "_">>, <<"_", "_">>)>>,
        annotations |-> Annotations(TRUE, FALSE, FALSE)],
       [kind |-> "generic",
        alts |-> <<Alt(<<"*">>, <<"*">>), Alt(<<"_">>, <<"_">>)>>,
        annotations |-> Annotations(FALSE, TRUE, FALSE)],
       [kind |-> "generic",
        alts |-> <<Alt(<<BT>>, <<BT>>)>>,
        annotations |-> Annotations(FALSE, FALSE, TRUE)],
       [kind |-> "link"] >>

NoMatch == [found |-> FALSE]

\* match.group(idx) of a group that took no part in the match: None, as a
\* value that is no string
NoneContent == <<None>>

\* "open(.+?)close" at position p: the shortest non-empty content without a
\* newline that is followed by close
AltMatchAt(s, p, alt) ==
    LET c0 == p + Len(alt.open)
        e  == IF StartsAt(s, p, alt.open) THEN FindFrom(s, alt.close, c0 + 1) ELSE 0
    IN  IF e > 0 /\ \A k \in c0..(e - 1) : s[k] # "\n"
        THEN [found |-> TRUE, start |-> p, end |-> e + Len(alt.close),
              span |-> SubSeq(s, c0, e - 1)]
        ELSE NoMatch

\* the alternatives of a generic pattern at position p, first alternative
\* first; groups holds the content group of every alternative, None for the
\* alternatives that did not match
AltsMatchAt(s, p, alts) ==
    LET K == {k \in 1..Len(alts) : AltMatchAt(s, p, alts[k]).found} IN
    IF K = {} THEN NoMatch
    ELSE LET k == SetMin(K)
             m == AltMatchAt(s, p, alts[k])
         IN  [found |-> TRUE, start |-> m.start, end |-> m.end,
              groups |-> [j \in 1..Len(alts) |-> IF j = k THEN m.span ELSE NoneContent]]

\* LinkPlugin.pattern \[(.+?)\]\((.+?)\) at position p
LinkMatchAt(s, p) ==
    LET e1 == IF StartsAt(s, p, <<"[">>) THEN FindFrom(s, <<"]", "(">>, p + 2) ELSE 0
        e2 == IF e1 > 0 THEN FindFrom(s, <<")">>, e1 + 3) ELSE 0
    IN  IF e2 > 0 /\ \A k \in (p + 1)..(e2 - 1) : s[k] # "\n"
        THEN [found |-> TRUE, start |-> p, end |-> e2 + 1,
              text |-> SubSeq(s, p + 1, e1 - 1), url |-> SubSeq(s, e1 + 2, e2 - 1)]
        ELSE NoMatch

PluginMatchAt(plugin, s, p) ==
    IF plugin.kind = "link" THEN LinkMatchAt(s, p) ELSE AltsMatchAt(s, p, plugin.alts)

\* `if content:` is false for None and for the empty string
FalsyContent(content) == content = NoneContent \/ content = <<>>

RECURSIVE GroupContent(_, _)
\* mutant: only the first content group is read
GroupContent_first_only(groups, content) ==
    IF groups = <<>> THEN content ELSE Head(groups)

\* the loop `for idx in self._content_groups`: the first group that is not
\* falsy, or else the last group read (None before any group is read)
GroupContent(groups, content) ==
    IF groups = <<>> THEN content
    ELSE IF ~FalsyContent(Head(groups)) THEN Head(groups)
    ELSE GroupContent(Tail(groups), Head(groups))

\* plugin.replace(match)
PluginReplace(plugin, m) ==
    IF plugin.kind = "link"
    THEN Span(m.text, m.url, Annotations(FALSE, FALSE, FALSE))
    ELSE Span(GroupContent(m.groups, NoneContent), <<>>, plugin.annotations)

\* the loop over re.finditer(pattern, part) of _replace_part: the matches at
\* or after prev_end, the end of the previous match
RECURSIVE ReplaceInPart(_, _, _, _)
ReplaceInPart(plugin, s, prev_end, acc) ==
    LET M == {j \in prev_end..Len(s) : PluginMatchAt(plugin, s, j).found} IN
    IF M = {} THEN Append(acc, StrPart(SubSeq(s, prev_end, Len(s))))
    ELSE LET m == PluginMatchAt(plugin, s, SetMin(M)) IN
         ReplaceInPart(plugin, s, m.end,
            (IF prev_end # m.start
             THEN Append(acc, StrPart(SubSeq(s, prev_end, m.start - 1)))
             ELSE acc) \o <<PluginReplace(plugin, m)>>)

RECURSIVE _replace_part(_, _, _)
\* mutant: the content of a span is searched like a plain string
_replace_part_rescans(parts, plugin, acc) ==
    acc \o Flatten([i \in 1..Len(parts) |->
                      ReplaceInPart(plugin,
                                    IF parts[i].kind = "str" THEN parts[i].s
                                    ELSE parts[i].content,
                                    1, <<>>)])

\* _replace_part
_replace_part(parts, plugin, acc) ==
    IF parts = <<>> THEN acc
    ELSE LET part == Head(parts) IN
         _replace_part(Tail(parts), plugin,
            IF part.kind = "str"
            THEN acc \o ReplaceInPart(plugin, part.s, 1, <<>>)
            ELSE Append(acc, part))

RECURSIVE ApplyPlugins(_, _)
ApplyPlugins(parts, plugins) ==
    IF plugins = <<>> THEN parts
    ELSE ApplyPlugins(_replace_part(parts, Head(plugins), <<>>), Tail(plugins))

\* the final loop of process_inline_formatting: non-empty strings become
\* default spans, empty strings are dropped
RECURSIVE FinalSpans(_, _)
FinalSpans(parts, acc) ==
    IF parts = <<>> THEN acc
    ELSE LET part == Head(parts) IN
         FinalSpans(Tail(parts),
            IF part.kind = "str"
            THEN (IF part.s # <<>>
                  THEN Append(acc, Span(part.s, <<>>, Annotations(FALSE, FALSE, FALSE)))
                  ELSE acc)
            ELSE Append(acc, part))

\* `for plugin in self.inline_plugins` reads the class attribute
process_inline_formatting(t) ==
    FinalSpans(ApplyPlugins(<<StrPart(t)>>, rule_list), <<>>)

\* ------------------------------------------------------------------------
\* convert_markdown_table_to_latex
\* ------------------------------------------------------------------------

\* \|\s*-+\s*\|
HeaderDividerRe ==
    <<One({"|"}), Star(Whitespace), Plus({"-"}), Star(Whitespace), One({"|"})>>

\* the first position >= i of a "|" in row, 0 when there is none
FirstPipeFrom(row, i) == FindFrom(row, <<"|">>, i)

\* re.findall(r"(?<=\|)(.*?)(?=\|)", row) from position p: a match starts
\* right after a "|" and ends right before the next one; after an empty match
\* the next match at the same position has to be non-empty (must)
RECURSIVE FindCells(_, _, _, _)
FindCells(row, p, must, acc) ==
    IF p > Len(row) + 1 THEN acc
    ELSE LET e == IF p >= 2 /\ row[p - 1] = "|"
                  THEN FirstPipeFrom(row, IF must THEN p + 1 ELSE p)
                  ELSE 0
         IN  IF e > 0
             THEN FindCells(row, e, e = p, Append(acc, SubSeq(row, p, e - 1)))
             ELSE FindCells(row, p + 1, FALSE, acc)

RowCells(row) == FindCells(row, 1, FALSE, <<>>)

\* " & ".join([f"\\textsf{{{cell.strip()}}}" for cell in cells])
LatexRow(cells) ==
    Join([k \in 1..Len(cells) |-> <<"\\", "t", "e", "x", "t", "s", "f", "{">> \o Strip(cells[k]) \o <<"}">>], <<" ", "&", " ">>)

ROW_END == <<" ", "\\", "\\", "\\", "h", "l", "i", "n", "e", "\n">>

RECURSIVE TableContent(_, _)
TableContent(rows, acc) ==
    IF rows = <<>> THEN acc
    ELSE TableContent(Tail(rows), acc \o LatexRow(RowCells(Head(rows))) \o ROW_END)

\* "|c" * columns + "|"
RECURSIVE TableColumn(_)
TableColumn(columns) ==
    IF columns = 0 THEN <<"|">> ELSE <<"|", "c">> \o TableColumn(columns - 1)

\* the rows left after the header divider (lines[1]) is popped
TableRows(text) ==
    LET ls == Split(text, "\n") IN
    IF Len(ls) > 1 /\ ReMatch(HeaderDividerRe, ls[2])
    THEN <<ls[1]>> \o SubSeq(ls, 3, Len(ls))
    ELSE ls

convert_markdown_table_to_latex(text) ==
    LET rows    == TableRows(text)
        columns == Len(RowCells(rows[Len(rows)]))
    IN  <<"\\", "d", "e", "f", "\\", "a", "r", "r", "a", "y", "s", "t", "r", "e", "t", "c", "h", "{", "1", ".", "4", "}", "\\", "b", "e", "g", "i", "n", "{", "a", "r", "r", "a", "y", "}", "{">> \o TableColumn(columns)
            \o <<"}", "\\", "h", "l", "i", "n", "e", "\n">> \o TableContent(rows, <<>>) \o <<"\\", "e", "n", "d", "{", "a", "r", "r", "a", "y", "}">>

\* ------------------------------------------------------------------------
\* parse_markdown_to_notion_blocks: the two placeholder passes
\* ------------------------------------------------------------------------
FENCE == <<BT, BT, BT>>

CODE_BLOCK_ == <<"C", "O", "D", "E", "_", "B", "L", "O", "C", "K", "_">>

LATEX_BLOCK_ == <<"L", "A", "T", "E", "X", "_", "B", "L", "O", "C", "K", "_">>

PLAIN_TEXT == <<"p", "l", "a", "i", "n", " ", "t", "e", "x", "t">>

\* length of the run of \w characters of s that starts at position i
WordRun(s, i) ==
    LET S == {j \in i..Len(s) : s[j] \notin WordChars} IN
    IF S = {} THEN (IF i <= Len(s) THEN Len(s) - i + 1 ELSE 0) ELSE SetMin(S) - i

\* code_block_pattern ```(\w+)?\n(.*?)``` (DOTALL) at position p; lang <<>>
\* stands for a group(1) of None
CodeMatchAt(s, p) ==
    LET w == WordRun(s, p + 3)
        q == p + 3 + w
        c == IF StartsAt(s, p, FENCE) /\ q <= Len(s) /\ s[q] = "\n"
             THEN FindFrom(s, FENCE, q + 1) ELSE 0
    IN  IF c > 0
        THEN [found |-> TRUE, end |-> c + 3,
              lang |-> SubSeq(s, p + 3, q - 1), body |-> SubSeq(s, q + 1, c - 1)]
        ELSE NoMatch

\* mutant: the stored body is not trimmed
replace_code_untrimmed(m) ==
    [language |-> Strip(IF m.lang # <<>> THEN m.lang ELSE PLAIN_TEXT),
     content  |-> m.body]

\* replace_code: the entry stored in code_blocks
replace_code(m) ==
    [language |-> Strip(IF m.lang # <<>> THEN m.lang ELSE PLAIN_TEXT),
     content  |-> Strip(m.body)]

\* code_block_pattern.sub(replace_code, markdown) from position p
RECURSIVE SubCode(_, _, _, _)
SubCode(s, p, text, table) ==
    LET M == {j \in p..Len(s) : CodeMatchAt(s, j).found} IN
    IF M = {} THEN [text |-> text \o SubSeq(s, p, Len(s)), table |-> table]
    ELSE LET j == SetMin(M)
             m == CodeMatchAt(s, j)
         IN  SubCode(s, m.end,
                     text \o SubSeq(s, p, j - 1) \o CODE_BLOCK_ \o Str(Len(table)),
                     Append(table, replace_code(m)))

\* latex_block_pattern \$\$(.*?)\$\$ (DOTALL) at position p
LatexMatchAt(s, p) ==
    LET c == IF StartsAt(s, p, <<"$", "$">>) THEN FindFrom(s, <<"$", "$">>, p + 2) ELSE 0 IN
    IF c > 0
    THEN [found |-> TRUE, end |-> c + 2, body |-> SubSeq(s, p + 2, c - 1)]
    ELSE NoMatch

\* replace_latex: the entry stored in latex_blocks
replace_latex(m) == Strip(m.body)

\* latex_block_pattern.sub(replace_latex, markdown) from position p
RECURSIVE SubLatex(_, _, _, _)
SubLatex(s, p, text, table) ==
    LET M == {j \in p..Len(s) : LatexMatchAt(s, j).found} IN
    IF M = {} THEN [text |-> text \o SubSeq(s, p, Len(s)), table |-> table]
    ELSE LET j == SetMin(M)
             m == LatexMatchAt(s, j)
         IN  SubLatex(s, m.end,
                      text \o SubSeq(s, p, j - 1) \o LATEX_BLOCK_ \o Str(Len(table)),
                      Append(table, replace_latex(m)))

\* ------------------------------------------------------------------------
\* parse_markdown_to_notion_blocks: the line scan
\* ------------------------------------------------------------------------

\* \|\s*[^|]+\s*\|
TableRowRe ==
    <<One({"|"}), Star(Whitespace), PlusNot({"|"}), Star(Whitespace), One({"|"})>>

IsTableRow(line) == ReMatch(TableRowRe, line)

INDENT == <<" ", " ", " ", " ">>

\* line.startswith("    ")
IsIndented(line) == StartsWith(line, INDENT)

\* number of "#" at the start of line
HashRun(s, i) ==
    LET S == {j \in i..Len(s) : s[j] # "#"} IN
    IF S = {} THEN (IF i <= Len(s) THEN Len(s) - i + 1 ELSE 0) ELSE SetMin(S) - i

\* ^(#{1,3})\s+(.*): one to three "#", then whitespace; the content is what
\* follows the whitespace
HeadingMatch(line) ==
    LET h == HashRun(line, 1) IN
    IF h \in 1..3 /\ Len(line) > h /\ line[h + 1] \in Whitespace
    THEN [found |-> TRUE, level |-> h, content |-> LStrip(Drop(line, h))]
    ELSE NoMatch

\* ^-{3,}$
DividerRe == <<One({"-"}), One({"-"}), Plus({"-"})>>

IsDivider(line) == ReFullMatch(DividerRe, line)

\* ^> (.*)
IsQuote(line) == StartsWith(line, <<">", " ">>)

\* !\[(.*?)\]\((.*?)\) at position p
ImageMatchAt(s, p) ==
    LET e1 == IF StartsAt(s, p, <<"!", "[">>) THEN FindFrom(s, <<"]", "(">>, p + 2) ELSE 0
        e2 == IF e1 > 0 THEN FindFrom(s, <<")">>, e1 + 2) ELSE 0
    IN  IF e2 > 0
        THEN [found |-> TRUE, caption |-> SubSeq(s, p + 2, e1 - 1),
              url |-> SubSeq(s, e1 + 2, e2 - 1)]
        ELSE NoMatch

\* re.search of the image pattern
ImageSearch(s, p) ==
    LET M == {j \in p..Len(s) : ImageMatchAt(s, j).found} IN
    IF M = {} THEN NoMatch ELSE ImageMatchAt(s, SetMin(M))

\* --- the blocks
EquationBlock(obj, expr) == [object |-> obj, type |-> "equation", expression |-> expr]

CodeBlock(language, text) ==
    [object |-> "block", type |-> "code", language |-> language, content |-> text]

HeadingBlock(level, rich_text) ==
    [object |-> "block", type |-> "heading", level |-> level, rich_text |-> rich_text]

DividerBlock == [object |-> "block", type |-> "divider"]

QuoteBlock(rich_text) == [object |-> "block", type |-> "quote", rich_text |-> rich_text]

\* caption <<>> stands for an image block without a caption entry
ImageBlock(url, caption) ==
    [object |-> "block", type |-> "image", url |-> url, caption |-> caption]

ParagraphBlock(rich_text) ==
    [object |-> "block", type |-> "paragraph", rich_text |-> rich_text]

\* the table flush: one equation block (it has no "object" entry)
TableBlock(table_lines) ==
    EquationBlock(None, convert_markdown_table_to_latex(Join(table_lines, <<"\n">>)))

\* the indented-code flush
IndentedBlock(code_lines) == CodeBlock(PLAIN_TEXT, Join(code_lines, <<"\n">>))

\* dict.get(idx, default) on a side table filled with keys 0..len-1
TableGet(table, idx, default) ==
    IF idx >= 0 /\ idx < Len(table) THEN table[idx + 1] ELSE default

Emit(b) == [kind |-> "block", block |-> b]

EmitNothing == [kind |-> "none"]

Raise(e) == [kind |-> "raise", exc |-> e]

\* the two marker rules: idx = int(line.replace(prefix, "")), then the block
\* stored under idx
MarkerBlock(line, prefix, table, isCode) ==
    LET n == PyInt(RemoveAll(line, prefix, 1)) IN
    IF ~n.ok THEN Raise("ValueError")
    ELSE IF isCode
    THEN LET e == TableGet(table, n.val, [language |-> PLAIN_TEXT, content |-> <<>>])
         IN  Emit(CodeBlock(e.language, e.content))
    ELSE Emit(EquationBlock("block", TableGet(table, n.val, <<>>)))

\* mutant: the paragraph rule takes every line, blank ones included
ParagraphRule_all(line) == Emit(ParagraphBlock(process_inline_formatting(line)))

\* `if line.strip():` paragraph
ParagraphRule(line) ==
    IF Strip(line) # <<>>
    THEN Emit(ParagraphBlock(process_inline_formatting(line)))
    ELSE EmitNothing

\* the rules of the loop body from the heading rule on
LineRules(line, cbs, lbs) ==
    LET hm == HeadingMatch(line)
        im == ImageSearch(line, 1)
    IN  IF hm.found
        THEN Emit(HeadingBlock(hm.level, process_inline_formatting(hm.content)))
        ELSE IF IsDivider(line) THEN Emit(DividerBlock)
        ELSE IF IsQuote(line)
        THEN Emit(QuoteBlock(process_inline_formatting(Drop(line, 2))))
        ELSE IF StartsWith(line, CODE_BLOCK_) THEN MarkerBlock(line, CODE_BLOCK_, cbs, TRUE)
        ELSE IF StartsWith(line, LATEX_BLOCK_) THEN MarkerBlock(line, LATEX_BLOCK_, lbs, FALSE)
        ELSE IF im.found THEN Emit(ImageBlock(im.url, im.caption))
        ELSE ParagraphRule(line)

\* the scan state
ScanState(bs, ct, it, ic, exc) ==
    [blocks |-> bs, current_table |-> ct, in_table |-> it, indented_code |-> ic,
     exc |-> exc]

\* one iteration of `for line in lines`
ScanStep(st, line, cbs, lbs) ==
    IF IsTableRow(line)
    THEN ScanState(st.blocks, Append(st.current_table, line), TRUE, st.indented_code, None)
    ELSE
    LET bs1 == IF st.in_table THEN Append(st.blocks, TableBlock(st.current_table))
               ELSE st.blocks
        ct1 == IF st.in_table THEN <<>> ELSE st.current_table
    IN  IF IsIndented(line)
        THEN ScanState(bs1, ct1, FALSE, Append(st.indented_code, Drop(line, 4)), None)
        ELSE
        LET bs2 == IF st.indented_code # <<>>
                   THEN Append(bs1, IndentedBlock(st.indented_code)) ELSE bs1
            r   == LineRules(line, cbs, lbs)
        IN  CASE r.kind = "block" -> ScanState(Append(bs2, r.block), ct1, FALSE, <<>>, None)
              [] r.kind = "none"  -> ScanState(bs2, ct1, FALSE, <<>>, None)
              [] r.kind = "raise" -> ScanState(bs2, ct1, FALSE, <<>>, r.exc)

\* mutant: a table that is still buffered at the end is not flushed
FinalBlocks_drops_table(st) ==
    IF st.indented_code # <<>> THEN Append(st.blocks, IndentedBlock(st.indented_code))
    ELSE st.blocks

\* "Finalize any pending tables or indented code"
FinalBlocks(st) ==
    LET bs1 == IF st.current_table # <<>>
               THEN Append(st.blocks, TableBlock(st.current_table)) ELSE st.blocks
    IN  IF st.indented_code # <<>> THEN Append(bs1, IndentedBlock(st.indented_code))
        ELSE bs1

\* ------------------------------------------------------------------------
\* NotionArticleWriter
\* ------------------------------------------------------------------------

\* range(0, len(blocks), chunk_size): number of chunks the generator yields
NumChunks(bs, chunk_size) == (Len(bs) + chunk_size - 1) \div chunk_size

\* mutant: the window is one block too long (blocks[i : i + chunk_size + 1])
_chunk_blocks_overlong(bs, chunk_size) ==
    [k \in 1..NumChunks(bs, chunk_size) |->
        SubSeq(bs, (k - 1) * chunk_size + 1, Min(k * chunk_size + 1, Len(bs)))]

\* _chunk_blocks: the k-th chunk is blocks[i : i + chunk_size], i = (k-1)*chunk_size
_chunk_blocks(bs, chunk_size) ==
    [k \in 1..NumChunks(bs, chunk_size) |->
        SubSeq(bs, (k - 1) * chunk_size + 1, Min(k * chunk_size, Len(bs)))]

\* first_chunk = next(self._chunk_blocks(blocks), [])
FirstChunk(bs) ==
    IF NumChunks(bs, CHUNK_SIZE) = 0 THEN <<>> ELSE _chunk_blocks(bs, CHUNK_SIZE)[1]

\* mutant: the emptiness check is missing
NoBlocks_missing(bs) == FALSE

\* `if not blocks` of write
NoBlocks(bs) == bs = <<>>

\* blocks[100:], the argument write hands to _append_blocks
RestBlocks(bs) == Drop(bs, 100)

\* `len(blocks) > 100` of write
NeedsAppend(bs) == Len(bs) > 100

\* What notion_client.pages.create can do: raise, or return a response that
\* is a mapping (with an id entry that may be missing or empty) or another
\* object.
PageIds == {"p1", "p2"}

CreateResponses ==
    {[kind |-> "raise"], [kind |-> "other"]}
        \cup {[kind |-> "mapping", id |-> i] : i \in PageIds \cup {"", None}}

\* mutant: a raising create call is swallowed and a page id made up
CreatePageOutcome_swallow(resp) ==
    CASE resp.kind = "raise"   -> [status |-> "returned", value |-> "p1"]
      [] resp.kind = "other"   -> [status |-> "raised", exc |-> "AttributeError"]
      [] resp.kind = "mapping" -> [status |-> "returned", value |-> resp.id]

\* _create_page after the call: the exception it raises, or the value it
\* returns (response.get("id"); .get on a non-mapping is an AttributeError
\* raised outside the try block)
CreatePageOutcome(resp) ==
    CASE resp.kind = "raise"   -> [status |-> "raised", exc |-> "CreatePageException"]
      [] resp.kind = "other"   -> [status |-> "raised", exc |-> "AttributeError"]
      [] resp.kind = "mapping" -> [status |-> "returned", value |-> resp.id]

\* `not page_id`
Falsy(v) == v = None \/ v = ""

\* outcome of one blocks.children.append call inside _append_blocks
AppendOutcomes == {[kind |-> "ok"], [kind |-> "raise"]}

\* mutant: the except clause logs and goes on with the next chunk
AppendChunkOutcome_goes_on(o) == [status |-> "continue"]

\* the except clause of _append_blocks
AppendChunkOutcome(o) ==
    IF o.kind = "raise" THEN [status |-> "raised", exc |-> "AppendBlocksException"]
    ELSE [status |-> "continue"]

\* the value write hands back after the debug log (it has no return statement)
WriteReturnValue(pid) == None

Running == [status |-> "running"]

\* outcome of a call that has not returned yet
Pending == [kind |-> "pending"]

\* ---- the components that are not running
ParserIdle ==
    /\ ppc = "idle"
    /\ source = <<>>
    /\ markdown = <<>>
    /\ code_blocks = <<>>
    /\ latex_blocks = <<>>
    /\ lines = <<>>
    /\ li = 0
    /\ p_blocks = <<>>
    /\ current_table = <<>>
    /\ in_table = FALSE
    /\ indented_code = <<>>
    /\ p_result = Running

InlineIdle ==
    /\ ipc = "idle"
    /\ inline_text = <<>>
    /\ text_parts = <<>>
    /\ text_src = <<>>
    /\ plugin_i = 0
    /\ result = <<>>

\* the class attribute as the class statement builds it; no second invocation
SharedIdle ==
    /\ rule_list = inline_plugins
    /\ other = [ppc |-> "idle"]
    /\ held = [n |-> 0, blocks |-> <<>>]

ConfigIdle ==
    /\ gpc = "idle"
    /\ config = None
    /\ new_config = None
    /\ load_ret = None
    /\ n_loads = 0

ToolIdle ==
    /\ tpc = "idle"
    /\ code_dir = <<>>
    /\ tree = {}
    /\ todo = {}
    /\ extracted_data = <<>>
    /\ t_result = Running

InitWrite ==
    /\ InlineIdle /\ SharedIdle /\ ConfigIdle /\ ToolIdle
    /\ ppc = "idle"
    /\ source = <<>>
    /\ markdown = <<>>
    /\ code_blocks = <<>>
    /\ latex_blocks = <<>>
    /\ lines = <<>>
    /\ li = 0
    /\ p_blocks = <<>>
    /\ current_table = <<>>
    /\ in_table = FALSE
    /\ indented_code = <<>>
    /\ p_result = Running
    /\ wpc = "start"
    /\ nblocks \in 0..MaxBlocks
    /\ blocks = <<>>
    /\ page_id = None
    /\ append_k = 0
    /\ calls = <<>>
    /\ remote_children = <<>>
    /\ w_result = Running

\* blocks = convert_markdown_to_notion_blocks(article.content); if not blocks: raise
WriteConvert ==
    /\ wpc = "start"
    /\ LET bs == [i \in 1..nblocks |-> i] IN
        /\ blocks' = bs
        /\ IF NoBlocks(bs)
           THEN /\ wpc' = "done"
                /\ w_result' = [status |-> "raised", exc |-> "NoBlockException"]
           ELSE /\ wpc' = "create"
                /\ UNCHANGED w_result
    /\ UNCHANGED <<nblocks, page_id, append_k, calls, remote_children>>
    /\ UNCHANGED <<pvars, ivars, svars, gvars, tvars>>

\* _create_page up to the call: self.notion_client.pages.create(**payload)
CreateCall ==
    /\ wpc = "create"
    /\ calls' = Append(calls, [op |-> "create", children |-> FirstChunk(blocks),
                               outcome |-> Pending])
    /\ wpc' = "create_wait"
    /\ UNCHANGED <<nblocks, blocks, page_id, append_k, remote_children, w_result>>
    /\ UNCHANGED <<pvars, ivars, svars, gvars, tvars>>

\* the call returns or raises; rest of _create_page and the checks of write
CreateReturn ==
    /\ wpc = "create_wait"
    /\ \E resp \in CreateResponses :
        LET out == CreatePageOutcome(resp)
            n   == Len(calls)
        IN
        /\ calls' = [calls EXCEPT ![n].outcome = resp]
        /\ remote_children' =
              IF resp.kind = "raise" THEN remote_children
              ELSE remote_children \o calls[n].children
        /\ IF out.status = "raised"
           THEN /\ w_result' = out
                /\ wpc' = "done"
                /\ UNCHANGED <<page_id, append_k>>
           ELSE /\ page_id' = out.value
                /\ IF Falsy(out.value)
                   THEN /\ w_result' = [status |-> "raised", exc |-> "CreatePageException"]
                        /\ wpc' = "done"
                        /\ UNCHANGED append_k
                   ELSE /\ UNCHANGED w_result
                        /\ IF NeedsAppend(blocks)
                              /\ NumChunks(RestBlocks(blocks), CHUNK_SIZE) > 0
                           THEN wpc' = "append" /\ append_k' = 1
                           ELSE wpc' = "log" /\ UNCHANGED append_k
    /\ UNCHANGED <<nblocks, blocks>>
    /\ UNCHANGED <<pvars, ivars, svars, gvars, tvars>>

\* one iteration of the for loop of _append_blocks, up to the call
AppendCall ==
    /\ wpc = "append"
    /\ calls' = Append(calls,
            [op |-> "append", block_id |-> page_id,
             children |-> _chunk_blocks(RestBlocks(blocks), CHUNK_SIZE)[append_k],
             outcome |-> Pending])
    /\ wpc' = "append_wait"
    /\ UNCHANGED <<nblocks, blocks, page_id, append_k, remote_children, w_result>>
    /\ UNCHANGED <<pvars, ivars, svars, gvars, tvars>>

\* the append call returns or raises
AppendReturn ==
    /\ wpc = "append_wait"
    /\ \E o \in AppendOutcomes :
        LET out == AppendChunkOutcome(o)
            n   == Len(calls)
        IN
        /\ calls' = [calls EXCEPT ![n].outcome = o]
        /\ remote_children' =
              IF o.kind = "ok" THEN remote_children \o calls[n].children
              ELSE remote_children
        /\ IF out.status = "raised"
           THEN /\ w_result' = out
                /\ wpc' = "done"
                /\ UNCHANGED append_k
           ELSE /\ UNCHANGED w_result
                /\ IF append_k < NumChunks(RestBlocks(blocks), CHUNK_SIZE)
                   THEN wpc' = "append" /\ append_k' = append_k + 1
                   ELSE wpc' = "log" /\ UNCHANGED append_k
    /\ UNCHANGED <<nblocks, blocks, page_id>>
    /\ UNCHANGED <<pvars, ivars, svars, gvars, tvars>>

\* logger.debug(...) and the end of write
WriteReturn ==
    /\ wpc = "log"
    /\ w_result' = [status |-> "returned", value |-> WriteReturnValue(page_id)]
    /\ wpc' = "done"
    /\ UNCHANGED <<nblocks, blocks, page_id, append_k, calls, remote_children>>
    /\ UNCHANGED <<pvars, ivars, svars, gvars, tvars>>

NextWrite ==
    \/ WriteConvert
    \/ CreateCall
    \/ CreateReturn
    \/ AppendCall
    \/ AppendReturn
    \/ WriteReturn

SpecWrite == InitWrite /\ [][NextWrite]_vars

\* ------------------------------------------------------------------------
\* parse_markdown_to_notion_blocks as a state machine
\* ------------------------------------------------------------------------

\* the Markdown documents parse_markdown_to_notion_blocks is called with:
\* up to MaxPieces pieces joined by newlines
Docs(pieces, n) ==
    {Join(ps, <<"\n">>) : ps \in UNION {[1..k -> pieces] : k \in 0..n}}

Pieces ==
    { <<>>, <<"a", "b">>, <<"a", " ", "*", "b", "*">>, <<"#", " ", "h">>, <<"-", "-", "-">>, <<">", " ", "q">>, <<" ", " ", " ", " ", "i">>, <<"|", " ", "a", " ", "|", " ", "b", " ", "|">>,
      <<BT, BT, BT, "p", "y", "\n", " ", "x", " ", "\n", BT, BT, BT>>, <<"$", "$", "m", "$", "$">>, <<"!", "[", "c", "]", "(", "u", ")">>, <<BT, BT, BT, "p", "y", "\n", "x", "\n", BT, BT, BT, "t">> }

\* lines that hold no block syntax, lines that nearly do, and two that do
PlainPieces ==
    { <<>>, <<" ", " ">>, <<"a", "b">>, <<"a", " ", "*", "b", "*">>, <<"#", "x">>, <<"|", " ", "a">>, <<"-", "-">>, <<"#", " ", "h">>, <<" ", " ", " ", " ", "i">> }

\* blank lines and fenced code regions with and without a language tag
FencePieces ==
    { <<>>, <<" ", " ">>, <<BT, BT, BT, "p", "y", "\n", " ", "x", " ", "\n", BT, BT, BT>>, <<BT, BT, BT, "\n", "x", "\n", BT, BT, BT>> }

TablePieces ==
    { <<"|", " ", "a", " ", "|", " ", "b", " ", "|">>, <<"|", "-", "-", "-", "|", "-", "-", "-", "|">>, <<"|", " ", "-", " ", "|", " ", "b", " ", "|">>, <<"|", " ", "a", " ", "|", "|", "|">>, <<"|", "a", "|", "b">>, <<"a", "b">> }

ParserStart(docs) ==
    /\ ppc = "code"
    /\ source \in docs
    /\ markdown = source
    /\ code_blocks = <<>>
    /\ latex_blocks = <<>>
    /\ lines = <<>>
    /\ li = 0
    /\ p_blocks = <<>>
    /\ current_table = <<>>
    /\ in_table = FALSE
    /\ indented_code = <<>>
    /\ p_result = Running

WriterIdle ==
    /\ wpc = "idle"
    /\ nblocks = 0
    /\ blocks = <<>>
    /\ page_id = None
    /\ append_k = 0
    /\ calls = <<>>
    /\ remote_children = <<>>
    /\ w_result = Running

InitParse ==
    InlineIdle /\ SharedIdle /\ ConfigIdle /\ ToolIdle /\ WriterIdle /\ ParserStart(Docs(Pieces, MaxPieces))

InitPlain ==
    InlineIdle /\ SharedIdle /\ ConfigIdle /\ ToolIdle /\ WriterIdle /\ ParserStart(Docs(PlainPieces, MaxPieces))

InitFence ==
    InlineIdle /\ SharedIdle /\ ConfigIdle /\ ToolIdle /\ WriterIdle /\ ParserStart(Docs(FencePieces, MaxFencePieces))

InitTable ==
    InlineIdle /\ SharedIdle /\ ConfigIdle /\ ToolIdle /\ WriterIdle /\ ParserStart(Docs(TablePieces, MaxRows))

\* markdown = code_block_pattern.sub(replace_code, markdown)
PrePassCode ==
    /\ ppc = "code"
    /\ \E r \in {SubCode(markdown, 1, <<>>, <<>>)} :
        /\ markdown' = r.text
        /\ code_blocks' = r.table
    /\ ppc' = "latex"
    /\ UNCHANGED <<source, latex_blocks, lines, li, p_blocks, current_table,
                   in_table, indented_code, p_result>>
    /\ UNCHANGED <<wvars, ivars, svars, gvars, tvars>>

\* markdown = latex_block_pattern.sub(replace_latex, markdown);
\* lines = markdown.split("\n") and the initial scan state
PrePassLatex ==
    /\ ppc = "latex"
    /\ \E r \in {SubLatex(markdown, 1, <<>>, <<>>)} :
        /\ markdown' = r.text
        /\ latex_blocks' = r.table
        /\ lines' = Split(r.text, "\n")
    /\ li' = 1
    /\ p_blocks' = <<>>
    /\ current_table' = <<>>
    /\ in_table' = FALSE
    /\ indented_code' = <<>>
    /\ ppc' = "scan"
    /\ UNCHANGED <<source, code_blocks, p_result>>
    /\ UNCHANGED <<wvars, ivars, svars, gvars, tvars>>

\* one iteration of `for line in lines`; a ValueError of int() ends the call
ScanLine ==
    /\ ppc = "scan"
    /\ li <= Len(lines)
    /\ \E st \in {ScanStep(ScanState(p_blocks, current_table, in_table, indented_code, None),
                           lines[li], code_blocks, latex_blocks)} :
        /\ p_blocks' = st.blocks
        /\ current_table' = st.current_table
        /\ in_table' = st.in_table
        /\ indented_code' = st.indented_code
        /\ IF st.exc # None
           THEN /\ ppc' = "done"
                /\ p_result' = [status |-> "raised", exc |-> st.exc]
                /\ UNCHANGED li
           ELSE /\ li' = li + 1
                /\ UNCHANGED <<ppc, p_result>>
    /\ UNCHANGED <<source, markdown, code_blocks, latex_blocks, lines>>
    /\ UNCHANGED <<wvars, ivars, svars, gvars, tvars>>

\* the flushes after the loop and `return blocks`
Finalize ==
    /\ ppc = "scan"
    /\ li > Len(lines)
    /\ \E bs \in {FinalBlocks(ScanState(p_blocks, current_table, in_table,
                                        indented_code, None))} :
        /\ p_blocks' = bs
        /\ p_result' = [status |-> "returned", value |-> bs]
    /\ ppc' = "done"
    /\ UNCHANGED <<source, markdown, code_blocks, latex_blocks, lines, li,
                   current_table, in_table, indented_code>>
    /\ UNCHANGED <<wvars, ivars, svars, gvars, tvars>>

NextParse ==
    \/ PrePassCode
    \/ PrePassLatex
    \/ ScanLine
    \/ Finalize

SpecParse == InitParse /\ [][NextParse]_vars

SpecPlain == InitPlain /\ [][NextParse]_vars

SpecFence == InitFence /\ [][NextParse]_vars

SpecTable == InitTable /\ [][NextParse]_vars

\* ------------------------------------------------------------------------
\* process_inline_formatting as a state machine
\* ------------------------------------------------------------------------

\* the texts process_inline_formatting is called with: up to n tokens in a row
Texts(tokens, n) ==
    {Flatten(ts) : ts \in UNION {[1..k -> tokens] : k \in 0..n}}

InlineTokens == { <<"a">>, <<"*">>, <<"_">>, <<"*", "*">>, <<"_", "_">>, <<BT>>, <<"[", "a", "]", "(", "a", ")">> }

\* the pieces of `part` that the loop over re.finditer turns into elements:
\* part[prev_end : match.start()], the text of each match, part[prev_end:]
RECURSIVE ReplaceInPartSrc(_, _, _, _)
ReplaceInPartSrc(plugin, s, prev_end, acc) ==
    LET M == {j \in prev_end..Len(s) : PluginMatchAt(plugin, s, j).found} IN
    IF M = {} THEN Append(acc, SubSeq(s, prev_end, Len(s)))
    ELSE LET m == PluginMatchAt(plugin, s, SetMin(M)) IN
         ReplaceInPartSrc(plugin, s, m.end,
            (IF prev_end # m.start
             THEN Append(acc, SubSeq(s, prev_end, m.start - 1))
             ELSE acc) \o <<SubSeq(s, m.start, m.end - 1)>>)

\* the piece of the text behind every element of _replace_part(parts, ...)
RECURSIVE PartsSrc(_, _, _, _)
PartsSrc(parts, srcs, plugin, acc) ==
    IF parts = <<>> THEN acc
    ELSE PartsSrc(Tail(parts), Tail(srcs), plugin,
            IF Head(parts).kind = "str"
            THEN acc \o ReplaceInPartSrc(plugin, Head(parts).s, 1, <<>>)
            ELSE Append(acc, Head(srcs)))

\* text_parts = [text]
InlineStart(texts) ==
    /\ ipc = "plugins"
    /\ inline_text \in texts
    /\ text_parts = <<StrPart(inline_text)>>
    /\ text_src = <<inline_text>>
    /\ plugin_i = 1
    /\ result = <<>>

InitInline ==
    /\ WriterIdle /\ ParserIdle /\ SharedIdle /\ ConfigIdle /\ ToolIdle
    /\ InlineStart(Texts(InlineTokens, MaxTokens))

\* one iteration of `for plugin in self.inline_plugins`
ApplyPlugin ==
    /\ ipc = "plugins"
    /\ plugin_i <= Len(rule_list)
    /\ text_parts' = _replace_part(text_parts, rule_list[plugin_i], <<>>)
    /\ text_src' = PartsSrc(text_parts, text_src, rule_list[plugin_i], <<>>)
    /\ plugin_i' = plugin_i + 1
    /\ UNCHANGED <<ipc, inline_text, result>>
    /\ UNCHANGED <<wvars, pvars, svars, gvars, tvars>>

\* the loop that builds `result`, and `return result`
BuildResult ==
    /\ ipc = "plugins"
    /\ plugin_i > Len(rule_list)
    /\ result' = FinalSpans(text_parts, <<>>)
    /\ ipc' = "done"
    /\ UNCHANGED <<inline_text, text_parts, text_src, plugin_i>>
    /\ UNCHANGED <<wvars, pvars, svars, gvars, tvars>>

NextInline ==
    \/ ApplyPlugin
    \/ BuildResult

SpecInline == InitInline /\ [][NextInline]_vars

\* texts that hold one Markdown link [label](url), with text around it
LinkLabels == { <<"t">>, <<"a", " ", "b">>, <<"a", "_", "b">>, <<"a", "*", "b", "*">>, <<BT, "a", BT>> }

LinkUrls == { <<"u">>, <<"h", "t", "t", "p", ":", "/", "/", "x">>, <<"u", "_", "v", "_", "w">>, <<"u", "*", "v", "*">>, <<"u", "_", "_", "v", "_", "_", "w">> }

LinkAround == { <<>>, <<"a", " ">>, <<" ", "_", "b", "_">> }

LinkText(pre, label, url, post) ==
    pre \o <<"[">> \o label \o <<"]", "(">> \o url \o <<")">> \o post

LinkTexts ==
    {LinkText(pre, label, url, post) :
        pre \in LinkAround, label \in LinkLabels, url \in LinkUrls, post \in LinkAround}

InitLink ==
    /\ WriterIdle /\ ParserIdle /\ SharedIdle /\ ConfigIdle /\ ToolIdle
    /\ InlineStart(LinkTexts)

SpecLink == InitLink /\ [][NextInline]_vars

\* ------------------------------------------------------------------------
\* Two invocations of parse_markdown_to_notion_blocks and the caller of the
\* first one. A converter instance has no attributes (__init__ is `pass`), so
\* two invocations share the class attribute inline_plugins and nothing else,
\* on one instance or on two.
\* ------------------------------------------------------------------------

\* the locals of an invocation
InvocationStart(md) ==
    [ppc |-> "code", markdown |-> md, code_blocks |-> <<>>, latex_blocks |-> <<>>,
     lines |-> <<>>, li |-> 0,
     st |-> ScanState(<<>>, <<>>, FALSE, <<>>, None), result |-> Running]

\* markdown = code_block_pattern.sub(replace_code, markdown)
InvocationCode(inv, r) ==
    [inv EXCEPT !.markdown = r.text, !.code_blocks = r.table, !.ppc = "latex"]

\* markdown = latex_block_pattern.sub(replace_latex, markdown) and the split
InvocationLatex(inv, r) ==
    [inv EXCEPT !.markdown = r.text, !.latex_blocks = r.table,
                !.lines = Split(r.text, "\n"), !.li = 1, !.ppc = "scan"]

\* one iteration of `for line in lines`
InvocationLine(inv, st) ==
    IF st.exc # None
    THEN [inv EXCEPT !.st = st, !.ppc = "done",
                     !.result = [status |-> "raised", exc |-> st.exc]]
    ELSE [inv EXCEPT !.st = st, !.li = inv.li + 1]

\* the next step of an invocation: the two passes, one line of the scan, or
\* the final flushes and the return
InvocationStep(inv) ==
    CASE inv.ppc = "code" ->
            InvocationCode(inv, SubCode(inv.markdown, 1, <<>>, <<>>))
      [] inv.ppc = "latex" ->
            InvocationLatex(inv, SubLatex(inv.markdown, 1, <<>>, <<>>))
      [] inv.ppc = "scan" /\ inv.li <= Len(inv.lines) ->
            InvocationLine(inv, ScanStep(inv.st, inv.lines[inv.li],
                                         inv.code_blocks, inv.latex_blocks))
      [] inv.ppc = "scan" /\ inv.li > Len(inv.lines) ->
            [inv EXCEPT !.ppc = "done",
                        !.result = [status |-> "returned", value |-> FinalBlocks(inv.st)]]

SharedPieces ==
    { <<"*", "*", "a", "*", "*">>, <<"a", " ", "*", "b", "*">>, <<"#", " ", "_", "h", "_">>, <<"|", " ", "a", " ", "|">>, <<" ", " ", " ", " ", "i">>, <<">", " ", BT, "q", BT>> }

\* mutant: replace hands out the plugin's own annotations dict
CopiesAnnotations_alias(plugin) == FALSE

\* "annotations": self._annotations.copy() gives every span a dict of its own
CopiesAnnotations(plugin) == TRUE

\* both invocations get the same string
InitShared ==
    /\ WriterIdle /\ InlineIdle /\ ConfigIdle /\ ToolIdle
    /\ ParserStart(Docs(SharedPieces, MaxSharedPieces))
    /\ rule_list = inline_plugins
    /\ other = InvocationStart(source)
    /\ held = [n |-> 0, blocks |-> <<>>]

\* the locals of the first invocation (the parser's variables) as a record
FirstInvocation ==
    [ppc |-> ppc, markdown |-> markdown, code_blocks |-> code_blocks,
     latex_blocks |-> latex_blocks, lines |-> lines, li |-> li,
     st |-> ScanState(p_blocks, current_table, in_table, indented_code, None),
     result |-> p_result]

\* the locals of the first invocation after a step
StoreFirst(new) ==
    /\ ppc' = new.ppc
    /\ markdown' = new.markdown
    /\ code_blocks' = new.code_blocks
    /\ latex_blocks' = new.latex_blocks
    /\ lines' = new.lines
    /\ li' = new.li
    /\ p_blocks' = IF new.result.status = "returned" THEN new.result.value
                   ELSE new.st.blocks
    /\ current_table' = new.st.current_table
    /\ in_table' = new.st.in_table
    /\ indented_code' = new.st.indented_code
    /\ p_result' = new.result
    /\ UNCHANGED source

\* a step of the first (which = 1) or of the second invocation
Advance(which) ==
    /\ \E inv \in {IF which = 1 THEN FirstInvocation ELSE other} :
        /\ inv.ppc \in {"code", "latex", "scan"}
        /\ \E new \in {InvocationStep(inv)} :
            IF which = 1
            THEN StoreFirst(new) /\ UNCHANGED other
            ELSE other' = new /\ UNCHANGED pvars
    /\ UNCHANGED <<rule_list, held>>
    /\ UNCHANGED <<wvars, ivars, gvars, tvars>>

\* the blocks the caller of the first invocation holds
HeldBlocks == IF held.n = 0 THEN p_result.value ELSE held.blocks

\* assigning to a key of an annotations dict that was handed out: the dict of
\* a rule changes with it when it is the same object
AssignThrough(rules, ann, new_ann) ==
    [k \in 1..Len(rules) |->
        IF /\ rules[k].kind = "generic"
           /\ ~CopiesAnnotations(rules[k])
           /\ rules[k].annotations = ann
        THEN [rules[k] EXCEPT !.annotations = new_ann]
        ELSE rules[k]]

\* the caller changes what it was given: it deletes a block, or flips the
\* bold entry of the annotations of a span
Mutate ==
    /\ p_result.status = "returned"
    /\ held.n < MaxMutations
    /\ \/ \E j \in 1..Len(HeldBlocks) :
            /\ held' = [n |-> held.n + 1,
                        blocks |-> SubSeq(HeldBlocks, 1, j - 1)
                                     \o SubSeq(HeldBlocks, j + 1, Len(HeldBlocks))]
            /\ UNCHANGED rule_list
       \/ \E j \in 1..Len(HeldBlocks) :
            /\ HeldBlocks[j].type \in {"paragraph", "heading", "quote"}
            /\ \E i \in 1..Len(HeldBlocks[j].rich_text) :
                LET ann == HeldBlocks[j].rich_text[i].annotations
                    new_ann == [ann EXCEPT !.bold = ~ann.bold]
                IN  /\ held' = [n |-> held.n + 1,
                                blocks |-> [HeldBlocks EXCEPT
                                              ![j].rich_text[i].annotations = new_ann]]
                    /\ rule_list' = AssignThrough(rule_list, ann, new_ann)
    /\ UNCHANGED other
    /\ UNCHANGED <<wvars, pvars, ivars, gvars, tvars>>

NextShared ==
    \/ \E which \in 1..2 : Advance(which)
    \/ Mutate

SpecShared == InitShared /\ [][NextShared]_vars

\* ------------------------------------------------------------------------
\* zegion.config: the settings classes, Config.__lshift__ and load_config.
\* A settings object is the value of each of its fields together with the
\* set of fields that were given a value (pydantic's model_fields_set); the
\* process environment holds no NOTION_* / OPENAI_* variable.
\* ------------------------------------------------------------------------
Sections == {"notion", "openai"}

\* the fields of NotionConfig and of OpenAIConfig
Fields(sec) ==
    IF sec = "notion" THEN {"api_key", "parent_page_id"} ELSE {"default_model"}

\* api_key = "", parent_page_id = "", default_model = "gpt-4o-mini"
FieldDefault(sec, f) == IF sec = "openai" THEN "gpt-4o-mini" ELSE ""

\* NotionConfig(**given) / OpenAIConfig(**given): given maps some fields to values
SubConfig(sec, given) ==
    [val |-> [f \in Fields(sec) |->
                 IF f \in DOMAIN given THEN given[f] ELSE FieldDefault(sec, f)],
     set |-> DOMAIN given]

\* Config(**d): d maps some sections to the fields given for them; a section
\* that is not given takes the default object
NewConfig(d) ==
    [sub |-> [sec \in Sections |->
                 IF sec \in DOMAIN d THEN SubConfig(sec, d[sec]) ELSE SubConfig(sec, <<>>)],
     set |-> DOMAIN d]

\* mutant: None values are dumped too
model_dump_keeps_none(obj, exclude_none) ==
    [sec \in obj.set |-> [f \in obj.sub[sec].set |-> obj.sub[sec].val[f]]]

\* obj.model_dump(exclude_unset=True, exclude_none=exclude_none)
model_dump(obj, exclude_none) ==
    [sec \in obj.set |->
        [f \in {g \in obj.sub[sec].set : ~(exclude_none /\ obj.sub[sec].val[g] = None)} |->
            obj.sub[sec].val[f]]]

\* always_merger.merge(base, nxt): dicts are merged key by key, any other
\* value of nxt replaces the one of base
merge(base, nxt) ==
    [sec \in DOMAIN base \cup DOMAIN nxt |->
        IF sec \in DOMAIN base /\ sec \in DOMAIN nxt
        THEN [f \in DOMAIN base[sec] \cup DOMAIN nxt[sec] |->
                 IF f \in DOMAIN nxt[sec] THEN nxt[sec][f] ELSE base[sec][f]]
        ELSE IF sec \in DOMAIN nxt THEN nxt[sec] ELSE base[sec]]

\* Config.__lshift__: the state of self after the two assignments (an
\* assignment to a field puts it into the set of given fields)
__lshift__(self, arg) ==
    LET base == model_dump(self, FALSE)
        nxt  == model_dump(arg, TRUE)
        new  == NewConfig(merge(base, nxt))
    IN  [sub |-> new.sub, set |-> self.set \cup Sections]

\* `return self`: the object __lshift__ hands back, of "self", "other", "new"
LshiftReturns == "self"

\* what a caller can give a field: nothing, None, or a string
FieldValues == {None, "", "v1"}

\* the ways to give values to the fields of a section
Givens(sec) == UNION {[F -> FieldValues] : F \in SUBSET Fields(sec)}

\* the Config objects load_config is called with: every section built from
\* given fields, and passed to Config(...) or assigned afterwards (then it is
\* not in the set of given sections)
ConfigArgs ==
    {[sub |-> [sec \in Sections |-> SubConfig(sec, IF sec = "notion" THEN gn ELSE go)],
      set |-> S] : gn \in Givens("notion"), go \in Givens("openai"), S \in SUBSET Sections}

\* config = Config()
InitConfig ==
    /\ WriterIdle /\ ParserIdle /\ InlineIdle /\ SharedIdle /\ ToolIdle
    /\ gpc = "ready"
    /\ config = NewConfig(<<>>)
    /\ new_config = None
    /\ load_ret = None
    /\ n_loads = 0

\* load_config(new_config): return config << new_config
LoadConfig ==
    /\ gpc = "ready"
    /\ n_loads < MaxLoads
    /\ \E arg \in ConfigArgs :
        /\ new_config' = arg
        /\ config' = __lshift__(config, arg)
    /\ load_ret' = (CASE LshiftReturns = "self"  -> "config"
                      [] LshiftReturns = "other" -> "new_config"
                      [] LshiftReturns = "new"   -> "new")
    /\ n_loads' = n_loads + 1
    /\ UNCHANGED gpc
    /\ UNCHANGED <<wvars, pvars, ivars, svars, tvars>>

NextConfig == LoadConfig

SpecConfig == InitConfig /\ [][NextConfig]_vars

\* ------------------------------------------------------------------------
\* zegion.tool.read_code_directory
\* ------------------------------------------------------------------------

\* str(base_path) for the directories the tool is called with
CodeDirs == { <<"a">>, <<"/", "r", "/", "a">> }

\* paths of .py files below the directory, relative to it
RelPaths == { <<"x", ".", "p", "y">>, <<"b", "x", ".", "p", "y">>, <<"a", "/", "x", ".", "p", "y">>, <<"b", "a", "/", "x", ".", "p", "y">> }

\* read_text raises, ast.parse raises SyntaxError, or the file parses
FileKinds == {"unreadable", "syntax_error", "ok"}

\* a file of the tree
File(rel, kind) == [rel |-> rel, kind |-> kind]

\* the trees: at most MaxFiles files, at most one per path
Trees ==
    {t \in SUBSET {File(rel, kind) : rel \in RelPaths, kind \in FileKinds} :
        /\ Cardinality(t) <= MaxFiles
        /\ \A f, g \in t : f.rel = g.rel => f = g}

\* str(file_path) of a file that base_path.rglob yields
FilePath(base, f) == base \o <<"/">> \o f.rel

\* file_data: the functions and classes ast.walk finds; every file of the
\* model defines one function, named after the file
FileData(f) == [functions |-> <<[name |-> f.rel]>>, classes |-> <<>>]

\* str(file_path).replace(f"{base_path}/", "")
EntryKey(base, f) == RemoveAll(FilePath(base, f), base \o <<"/">>, 1)

\* extracted_data[key] = data
DictSet(d, key, data) ==
    [k \in DOMAIN d \cup {key} |-> IF k = key THEN data ELSE d[k]]

InitTool ==
    /\ WriterIdle /\ ParserIdle /\ InlineIdle /\ SharedIdle /\ ConfigIdle
    /\ tpc = "scan"
    /\ code_dir \in CodeDirs
    /\ tree \in Trees
    /\ todo = tree
    /\ extracted_data = <<>>
    /\ t_result = Running

\* one iteration of `for file_path in base_path.rglob("*.py")`, in the order
\* the file system lists the files
ScanFile ==
    /\ tpc = "scan"
    /\ \E f \in todo :
        /\ todo' = todo \ {f}
        /\ extracted_data' =
              IF f.kind = "ok"
              THEN DictSet(extracted_data, EntryKey(code_dir, f), FileData(f))
              ELSE extracted_data
    /\ UNCHANGED <<tpc, code_dir, tree, t_result>>
    /\ UNCHANGED <<wvars, pvars, ivars, svars, gvars>>

\* return json.dumps(extracted_data, indent=2)
ReturnData ==
    /\ tpc = "scan"
    /\ todo = {}
    /\ tpc' = "done"
    /\ t_result' = [status |-> "returned", value |-> extracted_data]
    /\ UNCHANGED <<code_dir, tree, todo, extracted_data>>
    /\ UNCHANGED <<wvars, pvars, ivars, svars, gvars>>

NextTool ==
    \/ ScanFile
    \/ ReturnData

SpecTool == InitTool /\ [][NextTool]_vars

\* documents made of table rows, indented lines, blank lines and other lines
RunPieces ==
    { <<"|", " ", "a", " ", "|", " ", "b", " ", "|">>, <<" ", " ", " ", " ", "i">>, <<"a", "b">>, <<"#", " ", "h">>, <<>>, <<" ", " ", " ", " ", " ">> }

InitRuns ==
    InlineIdle /\ SharedIdle /\ ConfigIdle /\ ToolIdle /\ WriterIdle
        /\ ParserStart(Docs(RunPieces, MaxRunLines))

SpecRuns == InitRuns /\ [][NextParse]_vars

\* documents with fenced-code and math regions alone on their lines, after
\* other text, after a quote or heading prefix, and after 4 spaces
MarkerPieces ==
    { <<BT, BT, BT, "p", "y", "\n", "y", "\n", BT, BT, BT>>, <<"x", " ", BT, BT, BT, "p", "y", "\n", "y", "\n", BT, BT, BT>>, <<">", " ", BT, BT, BT, "p", "y", "\n", "y", "\n", BT, BT, BT>>, <<"#", " ", BT, BT, BT, "p", "y", "\n", "y", "\n", BT, BT, BT>>,
      <<" ", " ", " ", " ", BT, BT, BT, "p", "y", "\n", "y", "\n", BT, BT, BT>>, <<"$", "$", "m", "$", "$">>, <<"a", " ", "$", "$", "m", "$", "$">>, <<">", " ", "$", "$", "m", "$", "$">>, <<"a", "b">> }

InitMarkers ==
    InlineIdle /\ SharedIdle /\ ConfigIdle /\ ToolIdle /\ WriterIdle /\ ParserStart(Docs(MarkerPieces, MaxMarkerPieces))

SpecMarkers == InitMarkers /\ [][NextParse]_vars

\* ------------------------------------------------------------------------
\* Claims about NotionArticleWriter.write (SpecWrite)
\* ------------------------------------------------------------------------
CeilDiv(a, b) == (a + b - 1) \div b

CreateSucceeded(c) ==
    c.op = "create" /\ c.outcome.kind = "mapping" /\ ~Falsy(c.outcome.id)

CallSucceeded(c) ==
    IF c.op = "create" THEN CreateSucceeded(c) ELSE c.outcome.kind = "ok"

CallRaised(c) ==
    c.outcome.kind = "raise"

\* the call the claim expects at position i of the call sequence (1 = create)
ExpectedChildren(i) ==
    SubSeq(blocks, 100 * (i - 1) + 1, Min(Len(blocks), 100 * i))

\* C1: with N >= 1 blocks and every remote call succeeding, write issues one
\* create call carrying blocks[0 .. min(N,100)) and then ceil(N/100) - 1
\* append calls, the k-th carrying blocks[100k .. min(N,100(k+1))), in that
\* order, each issued only after the previous one returned, none carrying more
\* than 100 blocks, the carried chunks concatenating to the block sequence.
C1_ChunkedCalls ==
    (\A i \in 1..Len(calls) : calls[i].outcome = Pending \/ CallSucceeded(calls[i]))
    =>
    /\ Len(calls) <= CeilDiv(Len(blocks), 100)
    /\ \A i \in 1..Len(calls) :
        /\ calls[i].op = (IF i = 1 THEN "create" ELSE "append")
        /\ calls[i].children = ExpectedChildren(i)
        /\ Len(calls[i].children) <= 100
        /\ (i < Len(calls) => calls[i].outcome # Pending)
    /\ (w_result.status = "returned" =>
            /\ Len(blocks) >= 1
            /\ Len(calls) = CeilDiv(Len(blocks), 100)
            /\ Flatten([i \in 1..Len(calls) |-> calls[i].children]) = blocks)

C1_Witness ==
    /\ w_result.status = "returned"
    /\ Len(calls) = 3
    /\ Len(blocks) > 200
    /\ Len(blocks) < 300

\* C2: when the conversion result is empty, write fails with NoBlockException
\* and neither create nor append is called.
C2_NoContent ==
    (wpc # "start" /\ nblocks = 0) =>
        /\ wpc = "done"
        /\ w_result = [status |-> "raised", exc |-> "NoBlockException"]
        /\ calls = <<>>
        /\ remote_children = <<>>

C2_Witness == nblocks = 0 /\ wpc = "done" /\ w_result.status = "raised"

\* C3: once the page is created, if the j-th append call errors, write fails
\* with AppendBlocksException, no later chunk is sent, and the page with the
\* chunks of append calls 1..j-1 stays committed: only create and append
\* calls are ever issued.
C3_AppendFailed ==
    \A n \in 1..Len(calls) :
        (calls[n].op = "append" /\ calls[n].outcome.kind = "raise") =>
            /\ n = Len(calls)
            /\ wpc = "done"
            /\ w_result = [status |-> "raised", exc |-> "AppendBlocksException"]
            /\ CreateSucceeded(calls[1])
            /\ \A i \in 1..Len(calls) : calls[i].op \in {"create", "append"}
            /\ remote_children = SubSeq(blocks, 1, 100 * (n - 1))

C3_Witness ==
    /\ Len(calls) = 3
    /\ calls[3].op = "append"
    /\ calls[3].outcome.kind = "raise"
    /\ Len(remote_children) = 200

\* C4: if the create call raises or its response carries no usable identifier
\* (missing id, empty id, response not a mapping), write fails with
\* CreatePageException and no append call is issued.
C4_CreationFailed ==
    (Len(calls) >= 1 /\ calls[1].outcome # Pending /\ ~CreateSucceeded(calls[1])) =>
        /\ w_result = [status |-> "raised", exc |-> "CreatePageException"]
        /\ Len(calls) = 1

\* C5: when the create call and every append call succeed, write returns the
\* page identifier the create call returned.
C5_ReturnsPageId ==
    w_result.status = "returned" => w_result.value = calls[1].outcome.id

\* C6: no remote call is retried: create is called at most once, each chunk
\* is submitted at most once, the first raising call ends the invocation with
\* its typed failure, and write never returns after a call has failed.
C6_NoRetry ==
    /\ Cardinality({i \in 1..Len(calls) : calls[i].op = "create"}) <= 1
    /\ LET sent == Flatten([i \in 1..Len(calls) |-> calls[i].children]) IN
        Cardinality({sent[i] : i \in 1..Len(sent)}) = Len(sent)
    /\ \A n \in 1..Len(calls) :
        CallRaised(calls[n]) =>
            /\ n = Len(calls)
            /\ wpc = "done"
            /\ w_result = [status |-> "raised",
                           exc |-> IF calls[n].op = "create"
                                   THEN "CreatePageException"
                                   ELSE "AppendBlocksException"]
    /\ (w_result.status = "returned" =>
            \A n \in 1..Len(calls) : CallSucceeded(calls[n]))

C6_Witness ==
    /\ Len(calls) = 1
    /\ CallRaised(calls[1])
    /\ wpc = "done"

\* ------------------------------------------------------------------------
\* Claims about parse_markdown_to_notion_blocks (SpecParse, SpecTable)
\* ------------------------------------------------------------------------
NL == <<"\n">>

SourceLines == Split(source, "\n")

Blank(line) == Strip(line) = <<>>

\* C7: segmentation never raises: for every input, lines that start with
\* CODE_BLOCK_ or LATEX_BLOCK_ followed by something other than a bare integer
\* included, parse_markdown_to_notion_blocks returns a block sequence.
C7_NeverRaises ==
    /\ p_result.status # "raised"
    /\ (ppc = "done" => p_result.status = "returned")

\* a line none of the block rules of the scan takes (table row, indented
\* code, heading, divider, quote, code or math marker, image)
PlainLine(line) ==
    /\ ~IsTableRow(line)
    /\ ~IsIndented(line)
    /\ ~HeadingMatch(line).found
    /\ ~IsDivider(line)
    /\ ~IsQuote(line)
    /\ ~StartsWith(line, CODE_BLOCK_)
    /\ ~StartsWith(line, LATEX_BLOCK_)
    /\ ~ImageSearch(line, 1).found

\* an input without table, code, math, image, heading, quote or divider syntax
NoBlockSyntax(md) ==
    /\ \A j \in 1..Len(md) : ~CodeMatchAt(md, j).found /\ ~LatexMatchAt(md, j).found
    /\ \A k \in 1..Len(Split(md, "\n")) : PlainLine(Split(md, "\n")[k])

\* one Paragraph per non-blank line of ls, in order
ParagraphsOf(ls) ==
    LET nb == SelectSeq(ls, LAMBDA l : ~Blank(l)) IN
    [k \in 1..Len(nb) |-> ParagraphBlock(process_inline_formatting(nb[k]))]

FenceCases ==
    { [lang |-> <<"p", "y">>, body |-> <<" ", "x", " ">>], [lang |-> <<>>, body |-> <<"x">>] }

FenceText(f) == FENCE \o f.lang \o NL \o f.body \o NL \o FENCE

BlankLines == { <<>>, <<" ", " ">> }

\* the source is the fenced region f on its own lines, with nothing but blank
\* lines before and after it
FenceDoc(f) ==
    LET ls == SourceLines
        fl == Split(FenceText(f), "\n")
    IN  \E i \in 1..(Len(ls) - Len(fl) + 1) :
            /\ SubSeq(ls, i, i + Len(fl) - 1) = fl
            /\ \A k \in 1..Len(ls) :
                    (k < i \/ k >= i + Len(fl)) => ls[k] \in BlankLines

StrictDivider(line) ==
    /\ ReMatch(HeaderDividerRe, line)
    /\ \A k \in 1..Len(line) : line[k] \in {"|", "-", " "}

\* number of cells the source row has between consecutive pipes
SourceCells(row) ==
    LET n == Cardinality({k \in 1..Len(row) : row[k] = "|"}) IN
    IF n = 0 THEN 0 ELSE n - 1

ARRAY_HEAD == <<"\\", "d", "e", "f", "\\", "a", "r", "r", "a", "y", "s", "t", "r", "e", "t", "c", "h", "{", "1", ".", "4", "}", "\\", "b", "e", "g", "i", "n", "{", "a", "r", "r", "a", "y", "}", "{">>

ARRAY_END == <<"\\", "e", "n", "d", "{", "a", "r", "r", "a", "y", "}">>

\* the rows of an expression: the texts that end at each row terminator,
\* starting after the "\hline\n" that follows the column specification
ExprRows(expr) ==
    LET P     == {j \in 1..Len(expr) : StartsAt(expr, j, ROW_END)}
        n     == Cardinality(P)
        first == FindFrom(expr, <<"}", "\\", "h", "l", "i", "n", "e", "\n">>, Len(ARRAY_HEAD) + 1) + 8
    IN  [k \in 1..n |->
            SubSeq(expr, IF k = 1 THEN first ELSE Kth(P, k - 1) + Len(ROW_END),
                         Kth(P, k) - 1)]

\* number of "&"-separated cells of a row of an expression
ExprCells(row) == IF row = <<>> THEN 0 ELSE CountOcc(row, <<" ", "&", " ">>) + 1

\* the rows of the source table that the expression shows
ShownRows(ls) == <<ls[1]>> \o SubSeq(ls, 3, Len(ls))

TableOfRows(ls) ==
    /\ Len(ls) >= 2
    /\ \A k \in 1..Len(ls) : IsTableRow(ls[k])
    /\ StrictDivider(ls[2])

\* C10 (one block, rows): a table of k >= 2 lines whose second line is a
\* header divider yields one Equation block with k-1 hline-terminated rows.
C10_Rows ==
    (ppc = "done" /\ TableOfRows(SourceLines)) =>
        /\ p_result.status = "returned"
        /\ Len(p_result.value) = 1
        /\ p_result.value[1].type = "equation"
        /\ Len(ExprRows(p_result.value[1].expression)) = Len(SourceLines) - 1

\* C10 (columns): the column specification uses the cell count of the last row.
C10_Columns ==
    (ppc = "done" /\ TableOfRows(SourceLines)) =>
        LET expr == p_result.value[1].expression
            rows == ExprRows(expr)
        IN  StartsWith(expr, ARRAY_HEAD \o TableColumn(ExprCells(rows[Len(rows)]))
                                \o <<"}", "\\", "h", "l", "i", "n", "e", "\n">>)

\* C10 (cells): each row holds as many cells as the source row has between
\* consecutive pipes.
C10_Cells ==
    (ppc = "done" /\ TableOfRows(SourceLines)) =>
        LET rows == ExprRows(p_result.value[1].expression)
            src  == ShownRows(SourceLines)
        IN  \A k \in 1..Len(rows) : ExprCells(rows[k]) = SourceCells(src[k])

\* C10: a table of k >= 2 pipe-delimited lines whose second line is a
\* header-divider row yields exactly one Equation block with exactly k-1
\* hline-terminated rows (only the second line is dropped), each row holding
\* as many "&"-separated cells as the source row has cells between
\* consecutive pipes, the column specification using the cell count of the
\* last row.
C10_TableEquation == C10_Rows /\ C10_Cells /\ C10_Columns

\* ------------------------------------------------------------------------
\* Claims about process_inline_formatting (SpecInline, SpecLink)
\* ------------------------------------------------------------------------
BoldCode == Annotations(TRUE, FALSE, TRUE)

BoldPlain == Annotations(TRUE, FALSE, FALSE)

BoldDelims == { <<"*", "*">>, <<"_", "_">> }

\* the `**x**` or `__x__` segment that starts at p: x is the shortest non-empty
\* text up to the next occurrence of the same delimiter
BoldSegmentAt(s, p) ==
    LET D == {d \in BoldDelims : StartsAt(s, p, d) /\ FindFrom(s, d, p + 3) > 0} IN
    IF D = {} THEN [found |-> FALSE]
    ELSE LET e == FindFrom(s, CHOOSE d \in D : TRUE, p + 3) IN
         [found |-> TRUE, x |-> SubSeq(s, p + 2, e - 1), next |-> e + 2]

\* the x of the segments of s from position `from` on, left to right
RECURSIVE BoldSegments(_, _)
BoldSegments(s, from) ==
    LET P == {p \in from..Len(s) : BoldSegmentAt(s, p).found} IN
    IF P = {} THEN <<>>
    ELSE LET g == BoldSegmentAt(s, SetMin(P)) IN <<g.x>> \o BoldSegments(s, g.next)

\* the segments of the fragments that are still plain strings
SegmentsOfParts(parts) ==
    Flatten([i \in 1..Len(parts) |->
                IF parts[i].kind = "str" THEN BoldSegments(parts[i].s, 1) ELSE <<>>])

\* the contents of the spans of parts that carry the annotations ann, in order
ContentsWith(parts, ann) ==
    Flatten([i \in 1..Len(parts) |->
                IF parts[i].kind = "span" /\ parts[i].annotations = ann
                THEN <<parts[i].content>> ELSE <<>>])

\* C11: every `**x**` or `__x__` segment left over by the bold+italic rule
\* becomes, by rule 2, a span with bold and code set and content x; rule 3
\* (bold without code) converts nothing, and no span of the returned list has
\* bold set with italic and code unset.
C11_BoldIsCode ==
    [][ /\ (plugin_i = 2 /\ plugin_i' = 3) =>
              ContentsWith(text_parts', BoldCode) = SegmentsOfParts(text_parts)
        /\ (plugin_i = 3 /\ plugin_i' = 4) => text_parts' = text_parts
        /\ (ipc' = "done") =>
              /\ ContentsWith(result', BoldPlain) = <<>>
              /\ \A i \in 1..Len(result') :
                    (result'[i].annotations.bold /\ ~result'[i].annotations.italic)
                        => result'[i].annotations.code ]_vars

\* `__a__` came out as one span with bold and code set
C11_Witness ==
    /\ ipc = "done"
    /\ inline_text = <<"_", "_", "a", "_", "_">>
    /\ result = <<Span(<<"a">>, <<>>, BoldCode)>>

PlainAnnotations == Annotations(FALSE, FALSE, FALSE)

\* the spans of a rich text list that carry a link
LinkSpans(spans) == SelectSeq(spans, LAMBDA sp : sp.link # <<>>)

\* C12: a Markdown link [label](url) in a line produces one span whose content
\* is the label, whose link is the url and whose annotations are all false,
\* whatever characters the label and the url hold ('_', '*' and the backquote
\* included).
C12_LinkSpan ==
    ipc = "done" =>
        \A pre \in LinkAround, label \in LinkLabels, url \in LinkUrls, post \in LinkAround :
            inline_text = LinkText(pre, label, url, post)
                => LinkSpans(result) = <<Span(label, url, PlainAnnotations)>>

\* ------------------------------------------------------------------------
\* Claims about invocations that run side by side (SpecShared)
\* ------------------------------------------------------------------------

SetsField(arg, sec, f) ==
    /\ sec \in arg.set
    /\ f \in arg.sub[sec].set
    /\ arg.sub[sec].val[f] # None

\* C14: every load_config call leaves each field of the global configuration
\* at the value the call sets it to, or, when the call leaves the field unset
\* or None, at the value it had before the call (so after any sequence of
\* calls a field holds the value of the most recent call that set it); and
\* load_config returns the global configuration object itself.
C14_Merge ==
    [][ n_loads' = n_loads + 1 =>
          /\ \A sec \in Sections : \A f \in Fields(sec) :
                config'.sub[sec].val[f] =
                    IF SetsField(new_config', sec, f)
                    THEN new_config'.sub[sec].val[f]
                    ELSE config.sub[sec].val[f]
          /\ load_ret' = "config" ]_vars

\* api_key was set by the first call and is still there after a second call
\* that passed api_key = None and set parent_page_id
C14_Witness ==
    /\ n_loads = 2
    /\ config.sub["notion"].val["api_key"] = "v1"
    /\ config.sub["notion"].val["parent_page_id"] = "v1"
    /\ "notion" \in new_config.set
    /\ "api_key" \in new_config.sub["notion"].set
    /\ new_config.sub["notion"].val["api_key"] = None
    /\ SetsField(new_config, "notion", "parent_page_id")
    /\ load_ret = "config"

\* ------------------------------------------------------------------------
\* Claims about zegion.tool (SpecTool)
\* ------------------------------------------------------------------------

\* C15: read_code_directory returns one entry, keyed by the path relative to
\* code_dir, for every .py file under code_dir that can be read and parsed,
\* holding its functions and classes; files that cannot be read or parsed get
\* no entry and do not stop the scan.
C15_EntryPerFile ==
    tpc = "done" =>
        /\ t_result.status = "returned"
        /\ DOMAIN t_result.value = {f.rel : f \in {g \in tree : g.kind = "ok"}}
        /\ \A f \in tree : f.kind = "ok" => t_result.value[f.rel] = FileData(f)

\* ------------------------------------------------------------------------
\* Claims about the buffers of the line scan (SpecRuns)
\* ------------------------------------------------------------------------

\* the maximal runs of consecutive lines of ls whose flag is set, in order
RunStarts(flags) ==
    {i \in 1..Len(flags) : flags[i] /\ (i = 1 \/ ~flags[i - 1])}

RunEnd(flags, i) ==
    SetMin({j \in i..Len(flags) : j = Len(flags) \/ ~flags[j + 1]})

Runs(ls, flags) ==
    [k \in 1..Cardinality(RunStarts(flags)) |->
        SubSeq(ls, Kth(RunStarts(flags), k), RunEnd(flags, Kth(RunStarts(flags), k)))]

TableRuns(ls) == Runs(ls, [i \in 1..Len(ls) |-> IsTableRow(ls[i])])

\* the blocks a table flush appends: equations without an "object" entry
TableEquations(bs) == SelectSeq(bs, LAMBDA b : b.type = "equation" /\ b.object = None)

\* during the scan, with `done` the lines gone through: the buffer ct is the
\* run in progress, the flag it says whether there is one, and the blocks bs
\* hold one equation per finished run; on return there is one equation per run
RunsState(pc, ls, done, it, ct, bs, res) ==
    /\ pc = "scan" =>
          LET R    == TableRuns(done)
              open == done # <<>> /\ IsTableRow(done[Len(done)])
              n    == IF open THEN Len(R) - 1 ELSE Len(R)
          IN  /\ it = open
              /\ ct = IF open THEN R[Len(R)] ELSE <<>>
              /\ TableEquations(bs) = [k \in 1..n |-> TableBlock(R[k])]
    /\ (pc = "done" /\ res.status = "returned") =>
          TableEquations(res.value) =
              [k \in 1..Len(TableRuns(ls)) |-> TableBlock(TableRuns(ls)[k])]

\* C16: every maximal run of consecutive table-row lines yields exactly one
\* Equation block built from exactly the lines of the run; the run is flushed
\* by the first line that is no table row, or at the end of the document;
\* after the flush the buffer is empty and in_table is false, and the line
\* that ended the run goes through the remaining rules in the same step.
C16_TableRuns ==
    [][ /\ RunsState(ppc', lines', SubSeq(lines', 1, li' - 1), in_table',
                     current_table', p_blocks', p_result')
        /\ (ppc = "scan" /\ li' = li + 1 /\ in_table /\ ~IsTableRow(lines[li])) =>
              LET rest == ScanStep(ScanState(<<>>, <<>>, FALSE, indented_code, None),
                                   lines[li], code_blocks, latex_blocks)
              IN  /\ p_blocks' = p_blocks \o <<TableBlock(current_table)>> \o rest.blocks
                  /\ indented_code' = rest.indented_code
                  /\ current_table' = <<>>
                  /\ in_table' = FALSE ]_vars

\* two table runs with a heading between them: equation, heading, equation
C16_Witness ==
    /\ ppc = "done"
    /\ p_result.status = "returned"
    /\ Len(TableRuns(lines)) = 2
    /\ Len(p_result.value) = 3
    /\ p_result.value[1] = TableBlock(TableRuns(lines)[1])
    /\ p_result.value[2].type = "heading"
    /\ p_result.value[3] = TableBlock(TableRuns(lines)[2])

IndentedRuns(ls) == Runs(ls, [i \in 1..Len(ls) |-> IsIndented(ls[i])])

\* the lines of a run without their 4-space prefix
Unindented(run) == [i \in 1..Len(run) |-> Drop(run[i], 4)]

CodeBlocks(bs) == SelectSeq(bs, LAMBDA b : b.type = "code")

\* C17: every maximal run of consecutive lines that start with 4 spaces
\* yields exactly one Code block with language "plain text" whose text is the
\* lines of the run without the prefix, joined by newlines; lines of two runs
\* that are separated by other lines (table rows included) never share a block.
C17_IndentedRuns ==
    (ppc = "done" /\ p_result.status = "returned") =>
        CodeBlocks(p_result.value) =
            [k \in 1..Len(IndentedRuns(lines)) |->
                CodeBlock(PLAIN_TEXT, Join(Unindented(IndentedRuns(lines)[k]), NL))]

\* what a step may append without adding anything for the line itself: the
\* flush of the pending table, then the flush of the pending indented code
FlushesOnly(bs, ct, ic) ==
    {bs \o t \o c : t \in {<<>>, <<TableBlock(ct)>>}, c \in {<<>>, <<IndentedBlock(ic)>>}}

\* C18: a blank line (empty, or whitespace of any length) adds no block of
\* its own and no content to any block: its step appends at most the flushes
\* of what was buffered before, and puts nothing into a buffer.
C18_BlankLine ==
    [][ (ppc = "scan" /\ li' = li + 1 /\ Blank(lines[li])) =>
            /\ p_blocks' \in FlushesOnly(p_blocks, current_table, indented_code)
            /\ indented_code' \in {indented_code, <<>>}
            /\ current_table' \in {current_table, <<>>} ]_vars

\* a content that is a string with at least one character
ContentOk(content) == content # <<>> /\ content # NoneContent

\* s occurs in t
Contains(t, s) == \E p \in 1..(Len(t) + 1) : StartsAt(t, p, s)

\* the spans the final loop builds from a fragment list: a span for every
\* span and for every non-empty string, in the order of the list
SpansOfParts(parts) ==
    Flatten([i \in 1..Len(parts) |->
                IF parts[i].kind = "span" THEN <<parts[i]>>
                ELSE IF parts[i].s # <<>>
                THEN <<Span(parts[i].s, <<>>, PlainAnnotations)>>
                ELSE <<>>])

\* C19: every span process_inline_formatting returns has a non-empty string
\* as content, never an empty string and never None: a span built by a rule
\* holds the capture group that took part in the match, a non-empty residual
\* string becomes a span with default annotations, an empty one is dropped.
C19_NonEmptyContent ==
    /\ \A i \in 1..Len(text_parts) :
          text_parts[i].kind = "span" =>
              /\ ContentOk(text_parts[i].content)
              /\ Contains(text_src[i], text_parts[i].content)
    /\ ipc = "done" =>
          /\ \A i \in 1..Len(result) : ContentOk(result[i].content)
          /\ Len(result) = Cardinality({i \in 1..Len(text_parts) :
                                          text_parts[i] # StrPart(<<>>)})

\* `_a_` matched the second alternative of the italic rule (its first group
\* is None); the empty string after the match was dropped
C19_Witness ==
    /\ ipc = "done"
    /\ inline_text = <<"_", "a", "_">>
    /\ \E i \in 1..Len(text_parts) : text_parts[i] = StrPart(<<>>)
    /\ result = <<Span(<<"a">>, <<>>, Annotations(FALSE, TRUE, FALSE))>>

\* number of characters of the text before element i of a fragment list
Offset(srcs, i) == Len(Flatten(SubSeq(srcs, 1, i - 1)))

\* C20: a rule transforms only the plain-string fragments: every span that
\* is in the list before a rule runs is in the list afterwards, unchanged and
\* at the same place of the source text, the string fragments are verbatim
\* pieces of the text, and the list always covers the text from left to
\* right; the returned spans are those of the final list, in list order.
C20_SpansKept ==
    [][ /\ (plugin_i' = plugin_i + 1) =>
              /\ Len(text_src') = Len(text_parts')
              /\ Flatten(text_src') = inline_text
              /\ \A j \in 1..Len(text_parts') :
                    text_parts'[j].kind = "str" => text_src'[j] = text_parts'[j].s
              /\ \A i \in 1..Len(text_parts) :
                    text_parts[i].kind = "span" =>
                        \E j \in 1..Len(text_parts') :
                            /\ text_parts'[j] = text_parts[i]
                            /\ text_src'[j] = text_src[i]
                            /\ Offset(text_src', j) = Offset(text_src, i)
        /\ (ipc' = "done") => result' = SpansOfParts(text_parts) ]_vars

\* the italic rule took `*a*` out of a pair of backquotes; the code rule,
\* which runs later, left the span and both backquotes as they were
C20_Witness ==
    /\ ipc = "done"
    /\ inline_text = <<BT, "*", "a", "*", BT>>
    /\ result = << Span(<<BT>>, <<>>, PlainAnnotations),
                   Span(<<"a">>, <<>>, Annotations(FALSE, TRUE, FALSE)),
                   Span(<<BT>>, <<>>, PlainAnnotations) >>

\* the numbers of the lines behind each block of the output, in output
\* order: a flushed buffer stands for the lines that were appended to it, any
\* other block for the line whose rule built it. tl and il are the numbers of
\* the lines held by current_table and by indented_code.
RECURSIVE Origins(_, _, _, _, _)
Origins(ls, k, st, tl, il) ==
    IF k > Len(ls)
    THEN (IF st.current_table # <<>> THEN <<tl>> ELSE <<>>)
           \o (IF st.indented_code # <<>> THEN <<il>> ELSE <<>>)
    ELSE LET nx     == ScanStep(st, ls[k], code_blocks, latex_blocks)
             tflush == st.current_table # <<>> /\ nx.current_table = <<>>
             iflush == st.indented_code # <<>> /\ nx.indented_code = <<>>
             own    == Len(nx.blocks) - Len(st.blocks)
                         - (IF tflush THEN 1 ELSE 0) - (IF iflush THEN 1 ELSE 0)
             tl1    == IF Len(nx.current_table) > Len(st.current_table) THEN tl \cup {k}
                       ELSE IF nx.current_table = <<>> THEN {} ELSE tl
             il1    == IF Len(nx.indented_code) > Len(st.indented_code) THEN il \cup {k}
                       ELSE IF nx.indented_code = <<>> THEN {} ELSE il
         IN  (IF tflush THEN <<tl>> ELSE <<>>)
               \o (IF iflush THEN <<il>> ELSE <<>>)
               \o (IF own = 1 THEN <<{k}>> ELSE <<>>)
               \o Origins(ls, k + 1, nx, tl1, il1)

OriginsOfLines == Origins(lines, 1, ScanState(<<>>, <<>>, FALSE, <<>>, None), {}, {})

\* C21: the output follows source order: when the lines behind block A all
\* come before the lines behind block B, A is before B in the output, also
\* when indented lines are directly followed by table rows and when both
\* buffers are pending at the end of the document.
C21_SourceOrder ==
    (ppc = "done" /\ p_result.status = "returned") =>
        /\ Len(OriginsOfLines) = Len(p_result.value)
        /\ \A i \in 1..Len(OriginsOfLines) : \A j \in 1..Len(OriginsOfLines) :
              SetMax(OriginsOfLines[i]) < SetMin(OriginsOfLines[j]) => i < j

\* what does hold: two blocks are out of source order only as the Equation of
\* a table flush directly followed by the Code block of the indented lines
\* that were buffered before the table began
C21_OnlyFlushPairs ==
    (ppc = "done" /\ p_result.status = "returned") =>
        /\ Len(OriginsOfLines) = Len(p_result.value)
        /\ \A i \in 1..Len(OriginsOfLines) : \A j \in 1..Len(OriginsOfLines) :
              (SetMax(OriginsOfLines[i]) < SetMin(OriginsOfLines[j]) /\ j < i) =>
                  /\ i = j + 1
                  /\ p_result.value[j].type = "equation"
                  /\ p_result.value[j].object = None
                  /\ p_result.value[i].type = "code"
                  /\ \A m \in OriginsOfLines[i] : IsIndented(lines[m])
                  /\ \A m \in OriginsOfLines[j] : IsTableRow(lines[m])

\* ------------------------------------------------------------------------
\* Claims about the markers of the pre-pass (SpecMarkers)
\* ------------------------------------------------------------------------

\* number of elements of seq that equal x
Count(seq, x) == Cardinality({i \in 1..Len(seq) : seq[i] = x})

HasMarker(s) == Contains(s, CODE_BLOCK_) \/ Contains(s, LATEX_BLOCK_)

\* the strings a block carries as content
BlockContents(b) ==
    IF b.type \in {"paragraph", "heading", "quote"}
    THEN {b.rich_text[i].content : i \in 1..Len(b.rich_text)}
    ELSE IF b.type = "code" THEN {b.content}
    ELSE {}

\* every stored region is the body of as many blocks as there are regions
\* equal to it, and no block content holds marker text
RegionsEmitted(cbs, lbs, bs) ==
    /\ \A k \in 1..Len(cbs) :
          Count(bs, CodeBlock(cbs[k].language, cbs[k].content)) = Count(cbs, cbs[k])
    /\ \A k \in 1..Len(lbs) :
          Count(bs, EquationBlock("block", lbs[k])) = Count(lbs, lbs[k])
    /\ \A i \in 1..Len(bs) : \A c \in BlockContents(bs[i]) : ~HasMarker(c)

\* C22: every region the pre-pass stored is emitted exactly once, as one Code
\* or Equation block with the stored body, wherever its marker is on its line
\* (alone, after other text, after "> " or "# ", after 4 spaces); no region
\* is dropped and no marker text is content of a Paragraph, Heading, Quote or
\* Code block.
C22_RegionsEmitted ==
    (ppc = "done" /\ p_result.status = "returned") =>
        RegionsEmitted(code_blocks, latex_blocks, p_result.value)

\* a line that is a marker and its number, and nothing else
MarkerLine(line) ==
    \/ \E k \in 0..Len(code_blocks) : line = CODE_BLOCK_ \o Str(k)
    \/ \E k \in 0..Len(latex_blocks) : line = LATEX_BLOCK_ \o Str(k)

\* what does hold: when every marker is alone on its line, every region is
\* emitted exactly once and no marker text is left
C22_MarkersAlone ==
    (/\ ppc = "done"
     /\ p_result.status = "returned"
     /\ \A i \in 1..Len(lines) : HasMarker(lines[i]) => MarkerLine(lines[i])) =>
        RegionsEmitted(code_blocks, latex_blocks, p_result.value)

\* two regions, each alone on its line, came out as a Code and an Equation
C22_MarkersAloneWitness ==
    /\ ppc = "done"
    /\ p_result.status = "returned"
    /\ Len(code_blocks) = 1
    /\ Len(latex_blocks) = 1
    /\ \A i \in 1..Len(lines) : MarkerLine(lines[i])
    /\ Len(p_result.value) = 2

=============================================================================
